---- MODULE Spec2Model ----
(***************************************************************************)
(* TerpTracker backend: the multi-source merge, the terpene classifier and *)
(* the analysis pipeline (StrainAnalyzer.analyze_url), as state machines.  *)
(*                                                                         *)
(* Numbers.  Lab values are floats in the program.  The model keeps them   *)
(* as small integers (one unit = one hundredth of a percent, say) and does *)
(* every comparison of a proportion v/total with a threshold p/100 as the  *)
(* exact integer comparison 100*v >= p*total.  Python's None is the        *)
(* integer None, which no lab value takes.                                 *)
(***************************************************************************)
EXTENDS Integers, Sequences, FiniteSets, TLC

\* ---------------------------------------------------------------------------
\* Bounds of the model
\* ---------------------------------------------------------------------------
MaxVal == 3
MaxLen == 4
MaxLinks == 2
\* concurrent requests and save_profile calls of a run
MaxProcs == 2
MaxSaves == 3
MaxStr == 4
MaxParts == 3

\* ---------------------------------------------------------------------------
\* Values
\* ---------------------------------------------------------------------------
None == 0 - 1000
MinVal == 0 - 1
Numbers == MinVal..MaxVal
Vals == {None} \cup Numbers
PosVals == 1..MaxVal

SourceNames == <<"coa", "page", "database", "api">>

\* cannabinoid_fields of merge_cannabinoid_data, in the order of the list
CannFields == <<"total_terpenes", "thc", "thca", "thcv", "cbd", "cbda", "cbdv",
                "cbn", "cbg", "cbgm", "cbgv", "cbc", "cbcv", "cbv", "cbe", "cbt", "cbl">>
CannFieldSet == {CannFields[i] : i \in 1..Len(CannFields)}

\* Totals(): every field None
EmptyTotals == [f \in CannFieldSet |-> None]
\* Totals(**kw): the given fields set, the others None
TotalsOf(kw) == [f \in CannFieldSet |-> IF f \in DOMAIN kw THEN kw[f] ELSE None]

\* A dict argument: either None or a dict (a function from its keys to values).
NoneDict == [none |-> TRUE, d |-> <<>>]
Dict(d) == [none |-> FALSE, d |-> d]
EmptyDict == Dict(<<>>)
\* A Totals argument: either None or a Totals object.
NoneTotals == [none |-> TRUE, t |-> EmptyTotals]
TotalsObj(t) == [none |-> FALSE, t |-> t]

\* Python truthiness of a dict argument: None and {} are falsy
DictTruthy(src) == ~src.none /\ DOMAIN src.d # {}
\* Python truthiness of a pydantic model instance: any instance is truthy
TotalsTruthy(src) == ~src.none

\* ---------------------------------------------------------------------------
\* app/utils/merging.py
\* ---------------------------------------------------------------------------

\* a merge that lets a zero value of a higher-priority source win
TerpSupplies_ZeroCounts(src, key) ==
    /\ DictTruthy(src)
    /\ key \in DOMAIN src.d
    /\ src.d[key] # None
    /\ src.d[key] >= 0

\* line 41: the condition under which a source supplies a key
TerpSupplies(src, key) ==
    /\ DictTruthy(src)
    /\ key \in DOMAIN src.d
    /\ src.d[key] # None
    /\ src.d[key] > 0

\* a first supplier that is the last source holding the key
TerpFirstSupplier_Last(srcs, key) ==
    IF \E i \in 1..Len(srcs) : TerpSupplies(srcs[i], key)
    THEN CHOOSE i \in 1..Len(srcs) :
            /\ TerpSupplies(srcs[i], key)
            /\ \A j \in (i + 1)..Len(srcs) : ~TerpSupplies(srcs[j], key)
    ELSE 0

\* lines 40-44: index of the first source in priority order that supplies key, 0 if none
TerpFirstSupplier(srcs, key) ==
    IF \E i \in 1..Len(srcs) : TerpSupplies(srcs[i], key)
    THEN CHOOSE i \in 1..Len(srcs) :
            /\ TerpSupplies(srcs[i], key)
            /\ \A j \in 1..(i - 1) : ~TerpSupplies(srcs[j], key)
    ELSE 0

\* lines 33-36: the union of the keys of the truthy sources
TerpAllKeys(srcs) ==
    UNION {IF DictTruthy(srcs[i]) THEN DOMAIN srcs[i].d ELSE {} : i \in 1..Len(srcs)}

\* a merge that lists every source holding a positive value of a merged key
merge_terpene_data_AllHolders(coa, page, db, api) ==
    LET srcs == <<coa, page, db, api>>
        keys == {k \in TerpAllKeys(srcs) : TerpFirstSupplier(srcs, k) # 0}
    IN  [merged |-> [k \in keys |-> srcs[TerpFirstSupplier(srcs, k)].d[k]],
         used   |-> {SourceNames[i] : i \in {j \in 1..Len(srcs) :
                                                \E k \in keys : TerpSupplies(srcs[j], k)}}]

merge_terpene_data(coa, page, db, api) ==
    LET srcs == <<coa, page, db, api>>
        keys == {k \in TerpAllKeys(srcs) : TerpFirstSupplier(srcs, k) # 0}
    IN  [merged |-> [k \in keys |-> srcs[TerpFirstSupplier(srcs, k)].d[k]],
         used   |-> {SourceNames[TerpFirstSupplier(srcs, k)] : k \in keys}]

\* lines 80-82: the condition under which a Totals source supplies a field
CannSupplies(src, field) ==
    /\ TotalsTruthy(src)
    /\ src.t[field] # None
    /\ src.t[field] > 0

CannFirstSupplier(srcs, field) ==
    IF \E i \in 1..Len(srcs) : CannSupplies(srcs[i], field)
    THEN CHOOSE i \in 1..Len(srcs) :
            /\ CannSupplies(srcs[i], field)
            /\ \A j \in 1..(i - 1) : ~CannSupplies(srcs[j], field)
    ELSE 0

merge_cannabinoid_data(coa, page, db, api) ==
    LET srcs == <<coa, page, db, api>>
        set  == {f \in CannFieldSet : CannFirstSupplier(srcs, f) # 0}
    IN  [merged |-> [f \in CannFieldSet |->
                        IF f \in set THEN srcs[CannFirstSupplier(srcs, f)].t[f] ELSE None],
         used   |-> {SourceNames[CannFirstSupplier(srcs, f)] : f \in set}]

\* ---------------------------------------------------------------------------
\* app/core/constants.py: classification thresholds, in hundredths
\* ---------------------------------------------------------------------------
ORANGE_THRESHOLD == 35
GREEN_THRESHOLD == 35
BLUE_THRESHOLD == 35
PURPLE_CARYOPHYLLENE_MIN == 30
PURPLE_PINENE_MAX == 15
YELLOW_THRESHOLD == 30
RED_BALANCED_MIN == 20
RED_PINENE_MAX == 15
RED_HUMULENE_MAX == 15
DOMINANCE_MARGIN == 10
\* default tolerance of is_within_range, in hundredths
WITHIN_RANGE_TOLERANCE == 15

Categories == {"BLUE", "YELLOW", "PURPLE", "GREEN", "ORANGE", "RED"}

\* TRADITIONAL_LABELS, lines 23-30
TRADITIONAL_LABELS ==
    [ORANGE |-> "Sativa", YELLOW |-> "Modern Indica", PURPLE |-> "Modern Indica",
     GREEN |-> "Classic Indica", BLUE |-> "Classic Indica", RED |-> "Hybrid"]
\* get_traditional_label, lines 32-33
get_traditional_label(cat) ==
    IF cat \in DOMAIN TRADITIONAL_LABELS THEN TRADITIONAL_LABELS[cat] ELSE "Hybrid"

\* ---------------------------------------------------------------------------
\* app/services/classifier.py
\* A terpene dict is an insertion-ordered sequence of <<key, value>> items.
\* ---------------------------------------------------------------------------

\* str.lower() on the keys the model uses (all others are already lowercase)
KeyLower(key) == IF key = "Beta_Myrcene" THEN "beta_myrcene" ELSE key

\* key_mapping.get(k, k) for an already lowercased key (ASCII spellings)
KeyMapping(k) ==
    CASE k = "beta_myrcene" -> "myrcene"
      [] k = "d_limonene" -> "limonene"
      [] k = "d-limonene" -> "limonene"
      [] k = "beta_caryophyllene" -> "caryophyllene"
      [] k = "beta_ocimene" -> "ocimene"
      [] OTHER -> k

\* lines 66-70: the filter that keeps an item
KeepsValue(value) == value # None /\ value > 0

\* lines 66-70: the loop that fills `normalized`; keys keeps insertion order,
\* a repeated standard key keeps its first position and takes the last value
RECURSIVE NormalizeLoop(_, _, _)
NormalizeLoop(items, keys, val) ==
    IF items = <<>> THEN [keys |-> keys, val |-> val]
    ELSE LET key     == Head(items)[1]
             value   == Head(items)[2]
             std_key == KeyMapping(KeyLower(key))
         IN  IF KeepsValue(value)
             THEN NormalizeLoop(Tail(items),
                      IF std_key \in DOMAIN val THEN keys ELSE Append(keys, std_key),
                      [k \in DOMAIN val \cup {std_key} |->
                          IF k = std_key THEN value ELSE val[k]])
             ELSE NormalizeLoop(Tail(items), keys, val)

RECURSIVE SumOver(_, _)
SumOver(keys, val) ==
    IF keys = <<>> THEN 0 ELSE val[Head(keys)] + SumOver(Tail(keys), val)

\* normalize_terpene_profile: the proportion of key k is val[k] / total.
\* Lines 74-76: when the sum is not positive the values are returned undivided,
\* which is a denominator of 1.
normalize_terpene_profile(terpenes) ==
    LET n == NormalizeLoop(terpenes, <<>>, <<>>)
        total == SumOver(n.keys, n.val)
    IN  [keys |-> n.keys, val |-> n.val, total |-> IF total > 0 THEN total ELSE 1]

\* terps.get(key, 0), as a numerator over terps.total
Get(terps, key) == IF key \in DOMAIN terps.val THEN terps.val[key] ELSE 0

get_combined_pinene(terps) == Get(terps, "alpha_pinene") + Get(terps, "beta_pinene")

\* max(terps.items(), key=value): the first item, in dict order, of largest value
get_top_terpene(terps) ==
    IF terps.keys = <<>> THEN [name |-> "", value |-> 0]
    ELSE LET i == CHOOSE i \in 1..Len(terps.keys) :
                     /\ \A j \in 1..Len(terps.keys) :
                           terps.val[terps.keys[j]] <= terps.val[terps.keys[i]]
                     /\ \A j \in 1..(i - 1) :
                           terps.val[terps.keys[j]] < terps.val[terps.keys[i]]
         IN  [name |-> terps.keys[i], value |-> terps.val[terps.keys[i]]]

\* proportion num/total >= pct/100, and <=
AtLeast(num, total, pct) == 100 * num >= pct * total
AtMost(num, total, pct) == 100 * num <= pct * total

Abs(x) == IF x < 0 THEN 0 - x ELSE x

\* is_within_range(values, tolerance): "raise" is the ZeroDivisionError of
\* abs(v - avg) / avg when avg = 0.  With avg = sum/len the test
\* abs(v - avg) / avg <= tolerance is  100 * |len*v - sum| <= tolerance * sum.
is_within_range(values, tolerance) ==
    IF values = <<>> THEN "false"
    ELSE LET sum == SumOver([i \in 1..Len(values) |-> i], values)
         IN  IF sum = 0 THEN "raise"
             ELSE IF \A i \in 1..Len(values) :
                        100 * Abs(Len(values) * values[i] - sum) <= tolerance * sum
                  THEN "true" ELSE "false"

\* an ORANGE check whose secondary clause compares the top value with the margin
IsOrange_TopMargin(terps, top) ==
    \/ AtLeast(Get(terps, "terpinolene"), terps.total, ORANGE_THRESHOLD)
    \/ /\ top.name = "terpinolene"
       /\ AtLeast(top.value, terps.total, DOMINANCE_MARGIN)

\* line 125
IsOrange(terps, top) ==
    \/ AtLeast(Get(terps, "terpinolene"), terps.total, ORANGE_THRESHOLD)
    \/ /\ top.name = "terpinolene"
       /\ AtLeast(top.value - Get(terps, "terpinolene"), terps.total, DOMINANCE_MARGIN)

\* line 129
IsGreen(terps, top) ==
    \/ AtLeast(get_combined_pinene(terps), terps.total, GREEN_THRESHOLD)
    \/ /\ top.name \in {"alpha_pinene", "beta_pinene"}
       /\ AtLeast(top.value, terps.total, DOMINANCE_MARGIN)

\* line 133
IsBlue(terps, top) ==
    \/ AtLeast(Get(terps, "myrcene"), terps.total, BLUE_THRESHOLD)
    \/ /\ top.name = "myrcene"
       /\ AtLeast(top.value - Get(terps, "myrcene"), terps.total, DOMINANCE_MARGIN)

\* a RED check that calls is_within_range before the three minimum tests
RedCheck_RangeFirst(terps) ==
    LET myrcene       == Get(terps, "myrcene")
        limonene      == Get(terps, "limonene")
        caryophyllene == Get(terps, "caryophyllene")
        r == is_within_range(<<myrcene, limonene, caryophyllene>>, WITHIN_RANGE_TOLERANCE)
    IN  IF r # "true" THEN r
        ELSE IF /\ AtLeast(myrcene, terps.total, RED_BALANCED_MIN)
                /\ AtLeast(limonene, terps.total, RED_BALANCED_MIN)
                /\ AtLeast(caryophyllene, terps.total, RED_BALANCED_MIN)
                /\ AtMost(get_combined_pinene(terps), terps.total, RED_PINENE_MAX)
                /\ AtMost(Get(terps, "humulene"), terps.total, RED_HUMULENE_MAX)
             THEN "true" ELSE "false"

\* lines 137-139: "true", "false", or "raise" when is_within_range raises.
\* The conjuncts are evaluated left to right and stop at the first false one.
RedCheck(terps) ==
    LET myrcene       == Get(terps, "myrcene")
        limonene      == Get(terps, "limonene")
        caryophyllene == Get(terps, "caryophyllene")
    IN  IF ~(/\ AtLeast(myrcene, terps.total, RED_BALANCED_MIN)
             /\ AtLeast(limonene, terps.total, RED_BALANCED_MIN)
             /\ AtLeast(caryophyllene, terps.total, RED_BALANCED_MIN))
        THEN "false"
        ELSE LET r == is_within_range(<<myrcene, limonene, caryophyllene>>,
                                      WITHIN_RANGE_TOLERANCE)
             IN  IF r # "true" THEN r
                 ELSE IF /\ AtMost(get_combined_pinene(terps), terps.total, RED_PINENE_MAX)
                         /\ AtMost(Get(terps, "humulene"), terps.total, RED_HUMULENE_MAX)
                      THEN "true" ELSE "false"

\* line 143
IsPurple(terps) ==
    /\ AtLeast(Get(terps, "caryophyllene"), terps.total, PURPLE_CARYOPHYLLENE_MIN)
    /\ AtMost(get_combined_pinene(terps), terps.total, PURPLE_PINENE_MAX)

\* line 147
IsYellow(terps) == AtLeast(Get(terps, "limonene"), terps.total, YELLOW_THRESHOLD)

\* lines 150-163
TopFallback(top_terp) ==
    CASE top_terp = "myrcene" -> "BLUE"
      [] top_terp = "limonene" -> "YELLOW"
      [] top_terp = "caryophyllene" -> "PURPLE"
      [] top_terp \in {"alpha_pinene", "beta_pinene"} -> "GREEN"
      [] top_terp = "terpinolene" -> "ORANGE"
      [] OTHER -> "BLUE"

\* lines 109-163: the decisions taken on the normalized profile
Decide(terps) ==
    LET top == get_top_terpene(terps)
    IN  IF terps.keys = <<>> THEN "BLUE"
        ELSE IF IsOrange(terps, top) THEN "ORANGE"
        ELSE IF IsGreen(terps, top) THEN "GREEN"
        ELSE IF IsBlue(terps, top) THEN "BLUE"
        ELSE IF RedCheck(terps) = "raise" THEN "ZeroDivisionError"
        ELSE IF RedCheck(terps) = "true" THEN "RED"
        ELSE IF IsPurple(terps) THEN "PURPLE"
        ELSE IF IsYellow(terps) THEN "YELLOW"
        ELSE TopFallback(top.name)

\* classify_terpene_profile: a category, or "ZeroDivisionError" when it raises
classify_terpene_profile(terpenes) == Decide(normalize_terpene_profile(terpenes))

\* Line 75 divides in double precision: v / total is the exact proportion
\* rounded to a double, so a proportion that is exactly a threshold can come
\* out on either side of it, while two different proportions of a small
\* profile keep their order.  err gives, for each value of the profile, the
\* side on which its quotient falls: the numerators are scaled by
\* RoundingScale and moved by err, which no comparison of proportions that
\* differ can notice.
RoundingScale == 1000
RoundingErrors == {0 - 1, 0, 1}
Rounded(terps, err) ==
    [keys  |-> terps.keys,
     val   |-> [k \in DOMAIN terps.val |-> RoundingScale * terps.val[k] + err[terps.val[k]]],
     total |-> RoundingScale * terps.total]

\* the values of a profile, on which the rounding of a quotient depends
ValuesOf(terps) == {terps.val[k] : k \in DOMAIN terps.val}

\* classify_terpene_profile as computed in double precision
classify_terpene_profile_float(terpenes, err) ==
    Decide(Rounded(normalize_terpene_profile(terpenes), err))

\* ---------------------------------------------------------------------------
\* app/services/effects_engine.py.  Weights are in hundredths; a score is the
\* exact fraction num / den, den > 0, until round() makes hundredths of it.
\* ---------------------------------------------------------------------------
\* lines 8-89: body_weight and best_for of each terpene
TERPENE_EFFECTS ==
    [myrcene       |-> [body_weight |-> 85,
                        best_for |-> <<"Nighttime", "Sleep", "Pain relief", "Relaxation">>],
     limonene      |-> [body_weight |-> 20,
                        best_for |-> <<"Daytime", "Social events", "Creative work", "Mood boost">>],
     caryophyllene |-> [body_weight |-> 60,
                        best_for |-> <<"Pain management", "Stress relief", "Evening wind-down">>],
     alpha_pinene  |-> [body_weight |-> 15,
                        best_for |-> <<"Daytime", "Studying", "Hiking", "Creative focus">>],
     beta_pinene   |-> [body_weight |-> 15,
                        best_for |-> <<"Daytime", "Studying", "Focus work">>],
     terpinolene   |-> [body_weight |-> 30,
                        best_for |-> <<"Daytime", "Creative work", "Social events", "Exercise">>],
     humulene      |-> [body_weight |-> 50,
                        best_for |-> <<"Weight management", "Pain relief", "Evening">>],
     linalool      |-> [body_weight |-> 75,
                        best_for |-> <<"Nighttime", "Anxiety relief", "Sleep", "Relaxation">>],
     ocimene       |-> [body_weight |-> 25,
                        best_for |-> <<"Daytime", "Light activity">>]]
HasEffect(name) == name \in DOMAIN TERPENE_EFFECTS

\* line 283: fraction > 0.05, in percent; line 290: the six first contexts
CONTEXT_MIN_PERCENT == 5
MAX_CONTEXTS == 6

\* sum(terpenes.values())
RECURSIVE SumValues(_)
SumValues(items) == IF items = <<>> THEN 0 ELSE Head(items)[2] + SumValues(Tail(items))

\* lines 200-205: total_value and total_weight, both times the sum of the
\* dict; a fraction is positive when its value is, the sum being positive
RECURSIVE MindTotal(_)
MindTotal(items) ==
    IF items = <<>> THEN 0
    ELSE (IF HasEffect(Head(items)[1]) /\ Head(items)[2] > 0
          THEN (100 - TERPENE_EFFECTS[Head(items)[1]].body_weight) * Head(items)[2]
          ELSE 0) + MindTotal(Tail(items))
RECURSIVE WeightTotal(_)
WeightTotal(items) ==
    IF items = <<>> THEN 0
    ELSE (IF HasEffect(Head(items)[1]) /\ Head(items)[2] > 0 THEN Head(items)[2] ELSE 0)
         + WeightTotal(Tail(items))

\* _calc_body_mind_balance, lines 196-208
calc_body_mind_balance(items) ==
    IF WeightTotal(items) > 0
    THEN [num |-> MindTotal(items), den |-> 100 * WeightTotal(items)]
    ELSE [num |-> 1, den |-> 2]

\* sum(terps.get(t, 0) for t in names), times the sum of the dict
RECURSIVE ValuesIn(_, _)
ValuesIn(items, names) ==
    IF items = <<>> THEN 0
    ELSE (IF Head(items)[1] \in names THEN Head(items)[2] ELSE 0) + ValuesIn(Tail(items), names)

DaytimeTerps == {"terpinolene", "alpha_pinene", "beta_pinene", "limonene", "ocimene"}
NighttimeTerps == {"myrcene", "linalool"}

\* max(0.0, min(1.0, score))
Clamp(score) ==
    IF score.num < 0 THEN [num |-> 0, den |-> 1]
    ELSE IF score.num > score.den THEN [num |-> 1, den |-> 1]
    ELSE score

\* _calc_daytime_score, lines 211-221:
\* body_mind * 0.6 + daytime_frac * 0.8 - nighttime_frac * 0.4
calc_daytime_score(items, total, body_mind) ==
    Clamp([num |-> 6 * body_mind.num * total
                   + 8 * ValuesIn(items, DaytimeTerps) * body_mind.den
                   - 4 * ValuesIn(items, NighttimeTerps) * body_mind.den,
           den |-> 10 * body_mind.den * total])

\* lines 281-287: the dict context -> weight, in insertion order; put enters
\* a context or raises its weight
PositionOf(contexts, ctx) ==
    IF \E i \in 1..Len(contexts) : contexts[i].ctx = ctx
    THEN CHOOSE i \in 1..Len(contexts) : contexts[i].ctx = ctx
    ELSE 0
PutContext(contexts, ctx, weight) ==
    LET i == PositionOf(contexts, ctx) IN
    IF i = 0 THEN Append(contexts, [ctx |-> ctx, w |-> weight])
    ELSE IF weight > contexts[i].w THEN [contexts EXCEPT ![i].w = weight]
    ELSE contexts
RECURSIVE PutAll(_, _, _)
PutAll(contexts, best_for, weight) ==
    IF best_for = <<>> THEN contexts
    ELSE PutAll(PutContext(contexts, Head(best_for), weight), Tail(best_for), weight)
RECURSIVE ContextsLoop(_, _, _)
ContextsLoop(items, total, contexts) ==
    IF items = <<>> THEN contexts
    ELSE LET name  == Head(items)[1]
             value == Head(items)[2]
         IN  ContextsLoop(Tail(items), total,
                 IF HasEffect(name) /\ 100 * value > CONTEXT_MIN_PERCENT * total
                 THEN PutAll(contexts, TERPENE_EFFECTS[name].best_for, value)
                 ELSE contexts)

\* line 289: sorted(..., key=weight, reverse=True), a stable sort: an entry
\* goes behind the entries that weigh as much or more
RECURSIVE InsertByWeight(_, _)
InsertByWeight(sorted, e) ==
    IF sorted = <<>> THEN <<e>>
    ELSE IF Head(sorted).w >= e.w THEN <<Head(sorted)>> \o InsertByWeight(Tail(sorted), e)
    ELSE <<e>> \o sorted
RECURSIVE SortLoop(_, _)
SortLoop(contexts, sorted) ==
    IF contexts = <<>> THEN sorted
    ELSE SortLoop(Tail(contexts), InsertByWeight(sorted, Head(contexts)))
SortByWeight_Unsorted(contexts) == contexts
SortByWeight(contexts) == SortLoop(contexts, <<>>)

\* _collect_best_contexts, lines 279-290
collect_best_contexts(items, total) ==
    LET sorted_contexts == SortByWeight(ContextsLoop(items, total, <<>>))
        n == IF Len(sorted_contexts) < MAX_CONTEXTS THEN Len(sorted_contexts) ELSE MAX_CONTEXTS
    IN  [i \in 1..n |-> sorted_contexts[i].ctx]

\* round(score, 2), in hundredths; up says which way a score halfway between
\* two hundredths goes
Round2(score, up) ==
    LET q == (100 * score.num) \div score.den
        r == (100 * score.num) % score.den
    IN  IF 2 * r < score.den THEN q
        ELSE IF 2 * r > score.den THEN q + 1
        ELSE IF up THEN q + 1 ELSE q

EmptyEffects ==
    [called |-> TRUE, empty |-> TRUE, body_mind_balance |-> 0, daytime_score |-> 0,
     best_contexts |-> <<>>]

\* generate_effects_profile, lines 125-193: the fields of the result that
\* depend on the terpenes alone
generate_effects_profile(items, up) ==
    LET total_terp == SumValues(items)
        body_mind  == calc_body_mind_balance(items)
    IN  IF items = <<>> THEN EmptyEffects
        ELSE IF total_terp > 0
        THEN [called |-> TRUE, empty |-> FALSE,
              body_mind_balance |-> Round2(body_mind, up),
              daytime_score |-> Round2(calc_daytime_score(items, total_terp, body_mind), up),
              best_contexts |-> collect_best_contexts(items, total_terp)]
        ELSE EmptyEffects

\* ---------------------------------------------------------------------------
\* generate_cannabinoid_insights (classifier.py 191-248).  The fields of the
\* totals are in thousandths, thc_total and cbd_total in millionths.
\* ---------------------------------------------------------------------------
\* totals.f or 0
OrZero(v) == IF v = None THEN 0 ELSE v
\* lines 204-205: the acid forms count 0.877
Decarboxylated(neutral, acid) == 1000 * OrZero(neutral) + 877 * OrZero(acid)
Millionths(x) == 1000000 * x

RatioInsight_ThcOnly(thc_total, cbd_total) ==
    IF thc_total > 0 /\ cbd_total > 0
    THEN (IF thc_total > 20 * cbd_total THEN <<"THC-dominant (N:1 ratio)">>
          ELSE IF thc_total > 5 * cbd_total THEN <<"High THC (N:1 ratio)">>
          ELSE IF thc_total > 2 * cbd_total THEN <<"THC-leaning (N:1 ratio)">>
          ELSE IF 2 * thc_total > cbd_total THEN <<"Balanced THC:CBD (N:1 ratio)">>
          ELSE <<"CBD-rich (1:N ratio)">>)
    ELSE IF thc_total > 0 THEN <<"THC-dominant, minimal CBD">>
    ELSE <<>>
\* lines 208-223: the insight on the THC:CBD ratio, N standing for the number
RatioInsight(thc_total, cbd_total) ==
    IF thc_total > 0 /\ cbd_total > 0
    THEN (IF thc_total > 20 * cbd_total THEN <<"THC-dominant (N:1 ratio)">>
          ELSE IF thc_total > 5 * cbd_total THEN <<"High THC (N:1 ratio)">>
          ELSE IF thc_total > 2 * cbd_total THEN <<"THC-leaning (N:1 ratio)">>
          ELSE IF 2 * thc_total > cbd_total THEN <<"Balanced THC:CBD (N:1 ratio)">>
          ELSE <<"CBD-rich (1:N ratio)">>)
    ELSE IF thc_total > 0 THEN <<"THC-dominant, minimal CBD">>
    ELSE IF cbd_total > 0 THEN <<"CBD-dominant, minimal THC">>
    ELSE <<>>

\* lines 226-233
PotencyInsight(thc_total) ==
    IF thc_total > Millionths(25) THEN <<"Very high potency">>
    ELSE IF thc_total > Millionths(20) THEN <<"High potency">>
    ELSE IF thc_total > Millionths(15) THEN <<"Moderate-high potency">>
    ELSE IF thc_total > Millionths(10) THEN <<"Moderate potency">>
    ELSE <<>>

\* lines 236-246: totals.f and totals.f > threshold, the threshold in
\* thousandths
MinorInsight(v, threshold, text) ==
    IF v # None /\ v # 0 /\ v > threshold THEN <<text>> ELSE <<>>

\* generate_cannabinoid_insights, lines 191-248
generate_cannabinoid_insights(totals) ==
    LET thc_total == Decarboxylated(totals.thc, totals.thca)
        cbd_total == Decarboxylated(totals.cbd, totals.cbda)
    IN  RatioInsight(thc_total, cbd_total)
        \o PotencyInsight(thc_total)
        \o MinorInsight(totals.cbn, 5, "Elevated CBN may promote sleepiness")
        \o MinorInsight(totals.cbg, 10, "Notable CBG presence")
        \o MinorInsight(totals.thcv, 5, "Contains THCV")
        \o MinorInsight(totals.cbdv, 5, "Contains CBDV")

\* ---------------------------------------------------------------------------
\* Strings.  A Python str is a sequence of one-character strings.
\* ---------------------------------------------------------------------------
LowerLetters == <<"a", "b", "c", "d", "e", "f", "g", "h", "i", "j", "k", "l", "m", "n", "o", "p", "q", "r", "s", "t", "u", "v", "w", "x", "y", "z">>
UpperLetters == <<"A", "B", "C", "D", "E", "F", "G", "H", "I", "J", "K", "L", "M", "N", "O", "P", "Q", "R", "S", "T", "U", "V", "W", "X", "Y", "Z">>
DigitChars == {"0", "1", "2", "3", "4", "5", "6", "7", "8", "9"}

IsLowerChar(c) == \E i \in 1..Len(LowerLetters) : LowerLetters[i] = c
IsUpperChar(c) == \E i \in 1..Len(UpperLetters) : UpperLetters[i] = c
IsAlpha(c) == IsLowerChar(c) \/ IsUpperChar(c)
\* str.isalnum / str.isspace of one character (ASCII)
IsAlnum(c) == IsAlpha(c) \/ c \in DigitChars
IsSpace(c) == c = " "
LowerChar(c) ==
    IF IsUpperChar(c) THEN LowerLetters[CHOOSE i \in 1..Len(UpperLetters) : UpperLetters[i] = c]
    ELSE c
UpperChar(c) ==
    IF IsLowerChar(c) THEN UpperLetters[CHOOSE i \in 1..Len(LowerLetters) : LowerLetters[i] = c]
    ELSE c

\* str.lower()
StrLower(s) == [i \in 1..Len(s) |-> LowerChar(s[i])]

\* str.replace(pat, ''): the occurrences of pat, found left to right, removed
RECURSIVE Remove(_, _)
Remove(s, pat) ==
    IF Len(s) < Len(pat) THEN s
    ELSE IF SubSeq(s, 1, Len(pat)) = pat THEN Remove(SubSeq(s, Len(pat) + 1, Len(s)), pat)
    ELSE <<Head(s)>> \o Remove(Tail(s), pat)

\* ' '.join(s.split()): runs of spaces become one space, none at either end
RECURSIVE SplitJoinLoop(_, _, _)
SplitJoinLoop(s, out, gap) ==
    IF s = <<>> THEN out
    ELSE IF IsSpace(Head(s)) THEN SplitJoinLoop(Tail(s), out, TRUE)
    ELSE SplitJoinLoop(Tail(s),
                       IF gap /\ out # <<>> THEN out \o <<" ", Head(s)>>
                       ELSE Append(out, Head(s)),
                       FALSE)
SplitJoin(s) == SplitJoinLoop(s, <<>>, FALSE)

\* str.strip()
RECURSIVE LStrip(_)
LStrip(s) == IF s # <<>> /\ IsSpace(Head(s)) THEN LStrip(Tail(s)) ELSE s
RECURSIVE RStrip(_)
RStrip(s) == IF s # <<>> /\ IsSpace(s[Len(s)]) THEN RStrip(SubSeq(s, 1, Len(s) - 1)) ELSE s
Strip(s) == RStrip(LStrip(s))

RECURSIVE Flatten(_)
\* ''.join(parts)
Flatten(parts) == IF parts = <<>> THEN <<>> ELSE Head(parts) \o Flatten(Tail(parts))

\* str.title(): a letter after a non-letter is upper-cased, a letter after a
\* letter lower-cased
RECURSIVE TitleLoop(_, _)
TitleLoop(s, prev_cased) ==
    IF s = <<>> THEN <<>>
    ELSE <<IF IsAlpha(Head(s))
           THEN (IF prev_cased THEN LowerChar(Head(s)) ELSE UpperChar(Head(s)))
           ELSE Head(s)>> \o TitleLoop(Tail(s), IsAlpha(Head(s)))
Title(s) == TitleLoop(s, FALSE)

\* Optional[str]: None is NoneName, which is no sequence of characters
NoneName == <<"<None>">>
\* truthiness of an Optional[str]
NameTruthy(name) == name # NoneName /\ name # <<>>

\* app/core/constants.py
STRAIN_NAME_SUFFIXES ==
    <<<<"f", "l", "o", "w", "e", "r">>,
     <<"b", "u", "d">>,
     <<"s", "t", "r", "a", "i", "n">>,
     <<"c", "a", "n", "n", "a", "b", "i", "s">>,
     <<"i", "n", "d", "i", "c", "a">>,
     <<"s", "a", "t", "i", "v", "a">>,
     <<"h", "y", "b", "r", "i", "d">>,
     <<"c", "o", "n", "c", "e", "n", "t", "r", "a", "t", "e">>,
     <<"e", "x", "t", "r", "a", "c", "t">>,
     <<"r", "o", "s", "i", "n">>>>

\* the loop `for suffix in ...: name = name.replace(' suffix', '').replace('suffix ', '')`
RECURSIVE StripSuffixes(_, _)
StripSuffixes(name, suffixes) ==
    IF suffixes = <<>> THEN name
    ELSE StripSuffixes(Remove(Remove(name, <<" ">> \o Head(suffixes)),
                              Head(suffixes) \o <<" ">>),
                       Tail(suffixes))

\* app/utils/normalization.py
KeepOrBlank(c) == IF IsAlnum(c) \/ IsSpace(c) THEN c ELSE " "
normalize_strain_name(name, title_case) ==
    LET n1 == StripSuffixes(StrLower(name), STRAIN_NAME_SUFFIXES)
        n2 == [i \in 1..Len(n1) |-> KeepOrBlank(n1[i])]
        n3 == Strip(SplitJoin(n2))
    IN  IF title_case THEN Title(n3) ELSE n3

\* app/services/analyzer.py, StrainAnalyzer.normalize_strain_name
AnalyzerSuffixes == STRAIN_NAME_SUFFIXES
AnalyzerKeeps(c) == IsAlnum(c) \/ IsSpace(c)
RECURSIVE KeepAlnumSpace(_)
\* ''.join(c for c in name if c.isalnum() or c.isspace())
KeepAlnumSpace(s) ==
    IF s = <<>> THEN <<>>
    ELSE (IF AnalyzerKeeps(Head(s)) THEN <<Head(s)>> ELSE <<>>) \o KeepAlnumSpace(Tail(s))
StrainAnalyzer_normalize_strain_name(name) ==
    LET n1 == StripSuffixes(StrLower(name), AnalyzerSuffixes)
        n2 == KeepAlnumSpace(n1)
        n3 == SplitJoin(n2)
    IN  Title(Strip(n3))

\* app/services/profile_cache.py
ProfileCacheService_normalize_strain_name(name) == normalize_strain_name(name, FALSE)

IsStubChar(c) == IsLowerChar(c) \/ c \in DigitChars
RECURSIVE KeepStubChars(_)
\* re.sub(r'[^a-z0-9]', '', stub)
KeepStubChars(s) ==
    IF s = <<>> THEN <<>>
    ELSE (IF IsStubChar(Head(s)) THEN <<Head(s)>> ELSE <<>>) \o KeepStubChars(Tail(s))
\* ProfileCacheService._name_to_stub
name_to_stub(name) == KeepStubChars(Strip(StrLower(name)))

\* ---------------------------------------------------------------------------
\* app/utils/conversions.py
\* A Python float is a record: kind "num" with v its value in units of
\* 1 / One, kind "inf" with v its sign, or kind "nan".  The value handed to
\* the functions is a record of its Python type, its characters when it is a
\* str and its number when it is a float or an int.
\* ---------------------------------------------------------------------------
One == 10000
FracWidth == 4

Num(v) == [kind |-> "num", v |-> v]
Inf(sign) == [kind |-> "inf", v |-> sign]
NaN == [kind |-> "nan", v |-> 0]
\* the ValueError float() raises on a string that is not a number
ValueError == [kind |-> "ValueError", v |-> 0]
\* the None the functions return
NoneValue == [kind |-> "None", v |-> 0]

PyNone == [type |-> "NoneType", s |-> <<>>, f |-> NaN]
PyStr(s) == [type |-> "str", s |-> s, f |-> NaN]
PyFloat(f) == [type |-> "float", s |-> <<>>, f |-> f]
PyInt(n) == [type |-> "int", s |-> <<>>, f |-> Num(n * One)]

DigitSeq == <<"0", "1", "2", "3", "4", "5", "6", "7", "8", "9">>
DigitOf(n) == DigitSeq[n + 1]
DigitValue(c) == (CHOOSE i \in 1..Len(DigitSeq) : DigitSeq[i] = c) - 1

\* the decimal digits of a natural number
RECURSIVE NatStr(_)
NatStr(n) == IF n < 10 THEN <<DigitOf(n)>> ELSE Append(NatStr(n \div 10), DigitOf(n % 10))

\* the digits after the point: width digits, then the trailing zeros dropped
\* but for one
RECURSIVE FracStr(_, _)
FracStr(f, width) ==
    IF width = 0 THEN <<>> ELSE Append(FracStr(f \div 10, width - 1), DigitOf(f % 10))
RECURSIVE DropZeros(_)
DropZeros(s) ==
    IF Len(s) > 1 /\ s[Len(s)] = "0" THEN DropZeros(SubSeq(s, 1, Len(s) - 1)) ELSE s

\* str(value) of a float: the shortest decimal that reads back as the float
\* (positional notation, which Python uses from 0.0001 up to 1e16)
float_str(f) ==
    IF f.kind = "nan" THEN <<"n", "a", "n">>
    ELSE IF f.kind = "inf" THEN (IF f.v < 0 THEN <<"-">> ELSE <<>>) \o <<"i", "n", "f">>
    ELSE (IF f.v < 0 THEN <<"-">> ELSE <<>>)
         \o NatStr(Abs(f.v) \div One) \o <<".">>
         \o DropZeros(FracStr(Abs(f.v) % One, FracWidth))

\* str(value) of an int
int_str(f) == (IF f.v < 0 THEN <<"-">> ELSE <<>>) \o NatStr(Abs(f.v) \div One)

\* line 18: str(value)
py_str(value) ==
    IF value.type = "str" THEN value.s
    ELSE IF value.type = "float" THEN float_str(value.f)
    ELSE int_str(value.f)

AllDigits(s) == \A i \in 1..Len(s) : s[i] \in DigitChars
RECURSIVE NatValue(_)
NatValue(s) == IF s = <<>> THEN 0 ELSE 10 * NatValue(SubSeq(s, 1, Len(s) - 1)) + DigitValue(s[Len(s)])
\* the value, in units of 1 / scale, of the digits after the point
RECURSIVE FracValue(_, _)
FracValue(s, scale) ==
    IF s = <<>> \/ scale < 10 THEN 0
    ELSE DigitValue(Head(s)) * (scale \div 10) + FracValue(Tail(s), scale \div 10)

HasPoint(s) == \E i \in 1..Len(s) : s[i] = "."
PointAt(s) == CHOOSE i \in 1..Len(s) : s[i] = "." /\ \A j \in 1..(i - 1) : s[j] # "."
IntPart(s) == IF HasPoint(s) THEN SubSeq(s, 1, PointAt(s) - 1) ELSE s
FracPart(s) == IF HasPoint(s) THEN SubSeq(s, PointAt(s) + 1, Len(s)) ELSE <<>>

InfWords == {<<"i", "n", "f">>, <<"i", "n", "f", "i", "n", "i", "t", "y">>}
NanWord == <<"n", "a", "n">>

\* float(s) of an unsigned string
ParseUnsigned(s, sign) ==
    IF StrLower(s) \in InfWords THEN Inf(sign)
    ELSE IF StrLower(s) = NanWord THEN NaN
    ELSE IF /\ AllDigits(IntPart(s))
            /\ AllDigits(FracPart(s))
            /\ Len(IntPart(s)) + Len(FracPart(s)) > 0
         THEN Num(sign * (NatValue(IntPart(s)) * One + FracValue(FracPart(s), One)))
    ELSE ValueError

\* line 21: float(s): blanks around the number and one sign before it are
\* accepted, anything else that is not a number raises ValueError
float_of(str) ==
    LET s == Strip(str) IN
    IF s = <<>> THEN ValueError
    ELSE IF Head(s) = "-" THEN ParseUnsigned(Tail(s), 0 - 1)
    ELSE IF Head(s) = "+" THEN ParseUnsigned(Tail(s), 1)
    ELSE ParseUnsigned(s, 1)

\* line 19
Sentinels ==
    {<<>>, <<"n", "a", "n">>, <<"n", "o", "n", "e">>, <<"n", "u", "l", "l">>, <<"n", "d">>,
     <<"n", "/", "a">>, <<"<", "l", "o", "q">>}

\* result > bound, for a bound in units of 1 / One; no comparison holds of nan
FloatGt(f, bound) ==
    \/ f.kind = "num" /\ f.v > bound
    \/ f.kind = "inf" /\ f.v > 0

safe_float_ZeroPasses(value) ==
    IF value.type = "NoneType" THEN NoneValue
    ELSE LET s      == Strip(py_str(value))
             result == float_of(s)
         IN  IF s = <<>> \/ StrLower(s) \in Sentinels THEN NoneValue
             ELSE IF result = ValueError THEN NoneValue
             ELSE IF FloatGt(result, 0 - 1) THEN result
             ELSE NoneValue
\* safe_float, lines 8-26
safe_float(value) ==
    IF value.type = "NoneType" THEN NoneValue
    ELSE LET s      == Strip(py_str(value))
             result == float_of(s)
         IN  IF s = <<>> \/ StrLower(s) \in Sentinels THEN NoneValue
             ELSE IF result = ValueError THEN NoneValue
             ELSE IF FloatGt(result, 0) THEN result
             ELSE NoneValue

\* parsed / 100 in double precision: the quotient when it is a float, else
\* one of the two floats around it
DivisionErrors == {0, 1}
Div100(f, err) ==
    IF f.kind # "num" THEN f
    ELSE IF f.v % 100 = 0 THEN Num(f.v \div 100)
    ELSE Num(f.v \div 100 + err)

safe_terpene_value_AlwaysDivides(value, err) ==
    LET parsed == safe_float(value) IN
    IF parsed = NoneValue THEN NoneValue
    ELSE Div100(parsed, err)
\* safe_terpene_value, lines 29-44
safe_terpene_value(value, err) ==
    LET parsed == safe_float(value) IN
    IF parsed = NoneValue THEN NoneValue
    ELSE IF FloatGt(parsed, One) THEN Div100(parsed, err)
    ELSE parsed

\* ---------------------------------------------------------------------------
\* app/services/analyzer.py: the analyzer's own copies of the merge functions
\* ---------------------------------------------------------------------------
\* line 76
Analyzer_TerpSupplies(src, key) ==
    /\ DictTruthy(src)
    /\ key \in DOMAIN src.d
    /\ src.d[key] # None
    /\ src.d[key] > 0

\* lines 75-79
Analyzer_TerpFirstSupplier(srcs, key) ==
    IF \E i \in 1..Len(srcs) : Analyzer_TerpSupplies(srcs[i], key)
    THEN CHOOSE i \in 1..Len(srcs) :
            /\ Analyzer_TerpSupplies(srcs[i], key)
            /\ \A j \in 1..(i - 1) : ~Analyzer_TerpSupplies(srcs[j], key)
    ELSE 0

\* StrainAnalyzer.merge_terpene_data, lines 41-81
StrainAnalyzer_merge_terpene_data(coa, page, db, api) ==
    LET srcs == <<coa, page, db, api>>
        all_keys == UNION {IF DictTruthy(srcs[i]) THEN DOMAIN srcs[i].d ELSE {} :
                              i \in 1..Len(srcs)}
        keys == {k \in all_keys : Analyzer_TerpFirstSupplier(srcs, k) # 0}
    IN  [merged |-> [k \in keys |-> srcs[Analyzer_TerpFirstSupplier(srcs, k)].d[k]],
         used   |-> {SourceNames[Analyzer_TerpFirstSupplier(srcs, k)] : k \in keys}]

\* lines 118-120
Analyzer_CannSupplies(src, field) ==
    /\ TotalsTruthy(src)
    /\ src.t[field] # None
    /\ src.t[field] > 0

\* lines 117-123
Analyzer_CannFirstSupplier(srcs, field) ==
    IF \E i \in 1..Len(srcs) : Analyzer_CannSupplies(srcs[i], field)
    THEN CHOOSE i \in 1..Len(srcs) :
            /\ Analyzer_CannSupplies(srcs[i], field)
            /\ \A j \in 1..(i - 1) : ~Analyzer_CannSupplies(srcs[j], field)
    ELSE 0

\* StrainAnalyzer.merge_cannabinoid_data, lines 83-125
StrainAnalyzer_merge_cannabinoid_data(coa, page, db, api) ==
    LET srcs == <<coa, page, db, api>>
        set  == {f \in CannFieldSet : Analyzer_CannFirstSupplier(srcs, f) # 0}
    IN  [merged |-> [f \in CannFieldSet |->
                        IF f \in set THEN srcs[Analyzer_CannFirstSupplier(srcs, f)].t[f]
                        ELSE None],
         used   |-> {SourceNames[Analyzer_CannFirstSupplier(srcs, f)] : f \in set}]

\* truthiness of an Optional[float]
FloatTruthy(v) == v # None /\ v # 0

\* line 37: the number of terpenes that counts as enough
MinTerpenes == 5
\* line 38: the fields that count as a major cannabinoid
MajorCannabinoids == {"thc", "thca", "cbd", "cbda", "cbn", "cbg"}

\* a gate that is satisfied by either half of the test
is_data_complete_Either(terpenes, totals) ==
    \/ Cardinality(DOMAIN terpenes) >= MinTerpenes
    \/ \E f \in MajorCannabinoids : FloatTruthy(totals[f])

\* StrainAnalyzer.is_data_complete, lines 29-39
is_data_complete(terpenes, totals) ==
    /\ Cardinality(DOMAIN terpenes) >= MinTerpenes
    /\ \E f \in MajorCannabinoids : FloatTruthy(totals[f])

\* lines 265-266: the fields has_cannabinoids looks at
HasCannabinoidFields == {"thc", "thca", "cbd", "cbda", "cbn", "cbg", "cbc"}
has_cannabinoids_of(merged_totals) ==
    \E f \in HasCannabinoidFields : FloatTruthy(merged_totals[f])

\* lines 204-223: the fallback chain, in the order the calls are written
ApiChain ==
    <<[client |-> "cannlytics", normalized |-> FALSE],
      [client |-> "cannlytics", normalized |-> TRUE],
      [client |-> "kushy", normalized |-> FALSE],
      [client |-> "kushy", normalized |-> TRUE]>>

\* a chain that goes on to the next call whatever the last one returned
NextApiStep_Always(step, got_data) == IF step < Len(ApiChain) THEN step + 1 ELSE 0

\* lines 209, 215, 220: `if not strain_data` before each later call;
\* the number of the next call, 0 when the chain is over
NextApiStep(step, got_data) ==
    IF ~got_data /\ step < Len(ApiChain) THEN step + 1 ELSE 0

\* the link the COA loop goes on with after a link was parsed, whatever it gave
NextCoaIndex_Always(i, success, n) == IF i < n THEN i + 1 ELSE 0

\* lines 170-181: the position the COA loop goes on with, 0 when it is over
\* (`break` after a success, or the links are exhausted)
NextCoaIndex(i, success, n) == IF ~success /\ i < n THEN i + 1 ELSE 0

\* a list that leaves out the sources of the cannabinoid totals
all_sources_of_TerpenesOnly(terp_sources, cannabinoid_sources) ==
    LET listed == SelectSeq(SourceNames, LAMBDA n : n \in terp_sources)
    IN  IF listed = <<>> THEN <<"page">> ELSE listed

\* lines 247-259: the combined sources, in display order
all_sources_of(terp_sources, cannabinoid_sources) ==
    LET listed == SelectSeq(SourceNames,
                            LAMBDA n : n \in terp_sources \/ n \in cannabinoid_sources)
    IN  IF listed = <<>> THEN <<"page">> ELSE listed

InSeq(x, s) == \E i \in 1..Len(s) : s[i] = x

\* a condition that leaves out the test of the sources
ShouldSave_AnySource(all_sources, merged_terpenes, category, name) ==
    /\ DOMAIN merged_terpenes # {}
    /\ category # "None"
    /\ NameTruthy(name)

\* line 281: the condition under which the merged result is saved
ShouldSave(all_sources, merged_terpenes, category, name) ==
    /\ InSeq("page", all_sources) \/ InSeq("coa", all_sources)
    /\ DOMAIN merged_terpenes # {}
    /\ category # "None"
    /\ NameTruthy(name)

\* ---------------------------------------------------------------------------
\* app/services/profile_cache.py.  The profiles table is the sequence of its
\* rows; .first() is the first matching row.
\* ---------------------------------------------------------------------------
QueryFirst(table, normalized_name) ==
    IF \E i \in 1..Len(table) : table[i].strain_normalized = normalized_name
    THEN CHOOSE i \in 1..Len(table) :
            /\ table[i].strain_normalized = normalized_name
            /\ \A j \in 1..(i - 1) : table[j].strain_normalized # normalized_name
    ELSE 0

NotCached == [found |-> FALSE, terpenes |-> <<>>, totals |-> EmptyTotals,
              category |-> "None", cached_at |-> "None"]
CachedOf(row) == [found |-> TRUE, terpenes |-> row.terp_vector,
                  totals |-> TotalsOf(row.totals), category |-> row.category,
                  cached_at |-> row.created_at]

\* ProfileCacheService.get_cached_profile, lines 29-68
get_cached_profile(table, name) ==
    LET normalized_name == ProfileCacheService_normalize_strain_name(name)
        i == QueryFirst(table, normalized_name)
    IN  IF i # 0 THEN CachedOf(table[i]) ELSE NotCached

\* data/downloads/strain_alias_map.json: stub -> canonical name
AliasStub == <<"b", "l", "u", "e", "d", "r", "e", "a", "m">>
AliasCanonical == <<"B", "l", "u", "e", " ", "D", "r", "e", "a", "m">>
AliasMap == [s \in {AliasStub} |-> AliasCanonical]

\* ProfileCacheService.resolve_strain_aliases, lines 164-183
resolve_strain_aliases(name) ==
    LET stub == name_to_stub(name)
    IN  IF DOMAIN AliasMap = {} THEN <<>>
        ELSE IF stub \in DOMAIN AliasMap
                /\ ProfileCacheService_normalize_strain_name(AliasMap[stub])
                     # ProfileCacheService_normalize_strain_name(name)
             THEN <<ProfileCacheService_normalize_strain_name(AliasMap[stub])>>
             ELSE <<>>

\* lines 195-216: the alias loop, first hit wins
RECURSIVE AliasLookup(_, _)
AliasLookup(table, alt_names) ==
    IF alt_names = <<>> THEN NotCached
    ELSE IF QueryFirst(table, Head(alt_names)) # 0
         THEN CachedOf(table[QueryFirst(table, Head(alt_names))])
         ELSE AliasLookup(table, Tail(alt_names))

\* ProfileCacheService.get_cached_profile_with_aliases, lines 185-218
get_cached_profile_with_aliases(table, name) ==
    IF get_cached_profile(table, name).found THEN get_cached_profile(table, name)
    ELSE AliasLookup(table, resolve_strain_aliases(name))

\* Totals.model_dump(): the dict of all the fields
model_dump(totals) == [f \in CannFieldSet |-> totals[f]]

\* save_profile, lines 102-133: the row the query found (0 for none) is
\* updated in place, or a new row is added
SessionWrite(table, existing, normalized_name, terpenes, totals, category, source) ==
    IF existing # 0
    THEN [table EXCEPT ![existing] =
             [@ EXCEPT !.terp_vector = terpenes,
                       !.totals = model_dump(totals),
                       !.category = category,
                       !.source = source]]
    ELSE Append(table, [strain_normalized |-> normalized_name,
                        terp_vector |-> terpenes,
                        totals |-> model_dump(totals),
                        category |-> category,
                        source |-> source,
                        created_at |-> "now"])

\* save_profile, lines 98-133: the table as the session sees it before commit
SessionPending(table, name, terpenes, totals, category, source) ==
    LET normalized_name == ProfileCacheService_normalize_strain_name(name)
        existing == QueryFirst(table, normalized_name)
    IN  SessionWrite(table, existing, normalized_name, terpenes, totals, category,
                     source)

\* a rollback that leaves the pending changes in the table
Rollback_KeepsPending(table, pending) == pending

\* db.rollback(), line 141: the table is what it was before the session
Rollback(table, pending) == table

\* ---------------------------------------------------------------------------
\* The collaborators of analyze_url: COA parser and strain APIs.  What a call
\* returns is a data record, or NoData for None.
\* ---------------------------------------------------------------------------
NoData == [none |-> TRUE, strain_name |-> NoneName, terpenes |-> <<>>,
           totals |-> EmptyTotals, lab_name |-> None, test_date |-> None,
           source |-> "None"]

\* schemas.py COAData
COAData(strain_name, terpenes, totals, lab_name, test_date) ==
    [none |-> FALSE, strain_name |-> strain_name, terpenes |-> terpenes,
     totals |-> totals, lab_name |-> lab_name, test_date |-> test_date,
     source |-> "None"]

\* schemas.py StrainAPIData
StrainAPIData(strain_name, terpenes, totals, source) ==
    [none |-> FALSE, strain_name |-> strain_name, terpenes |-> terpenes,
     totals |-> totals, lab_name |-> None, test_date |-> None,
     source |-> source]

\* what can happen to a request sent to a collaborator
HttpOutcomes == {"200", "non_200", "raises"}

\* CannlyticsClient.parse_coa, cannlytics_client.py 23-122: None without an
\* API key, on a status other than 200, on any exception and when the
\* document holds no terpenes
parse_coa(has_api_key, outcome, doc) ==
    IF ~has_api_key THEN NoData
    ELSE IF outcome # "200" THEN NoData
    ELSE IF DOMAIN doc.terpenes = {} THEN NoData
    ELSE COAData(doc.strain_name, doc.terpenes, doc.totals, doc.lab_name,
                 doc.test_date)

\* CannlyticsClient.get_strain_data, cannlytics_client.py 124-248
Cannlytics_get_strain_data(name, outcome, strain) ==
    IF outcome # "200" THEN NoData
    ELSE IF /\ DOMAIN strain.terpenes = {}
            /\ \A f \in {"thc", "cbd", "cbn", "cbg"} : ~FloatTruthy(strain.totals[f])
         THEN NoData
         ELSE StrainAPIData(IF NameTruthy(strain.strain_name) THEN strain.strain_name
                            ELSE name,
                            strain.terpenes, strain.totals, "cannlytics")

\* KushyClient.get_strain_data, kushy_client.py 17-136
Kushy_get_strain_data(name, outcome, strain) ==
    IF outcome # "200" THEN NoData
    ELSE IF /\ DOMAIN strain.terpenes = {}
            /\ \A f \in {"thc", "cbd", "cbg", "cbn"} : ~FloatTruthy(strain.totals[f])
         THEN NoData
         ELSE StrainAPIData(IF strain.strain_name # NoneName THEN strain.strain_name
                            ELSE name,
                            strain.terpenes, strain.totals, "kushy")

\* ---------------------------------------------------------------------------
\* State
\* ---------------------------------------------------------------------------
VARIABLES
    mg_kind,        \* which merge function the arguments are for: "terpenes" | "totals" | "off"
    mg_args,        \* the four arguments <<coa, page, database, api>>
    mg_out,         \* [done, merged, used]: the returned (merged, sources_used)
    cl_terpenes,    \* the argument of classify_terpene_profile
    cl_result,      \* "" before the call, then what the call returned or raised
    pc,             \* where analyze_url is
    has_api_key,    \* settings: whether the COA parser has an API key
    profiles,       \* the profiles table: the sequence of its rows
    scraped,        \* what scrape_url returned
    strain_name,
    coa_terpenes, coa_totals, coa_url, coa_lab, coa_date,
    coa_i,          \* position of the COA loop in scraped.coa_links, 0 outside it
    db_terpenes, db_totals, cached_at,
    api_step,       \* position in the API fallback chain, 0 outside it
    api_terpenes, api_totals, api_source,
    merged_terpenes, merged_totals, all_sources, category,
    save_result,    \* what save_profile returned: "None" before the call
    result,         \* how analyze_url ended: "None" while it runs
    log,            \* the calls made so far, in the order they were made
    traditional_label, \* the traditional_label field of the response, "None" by default
    extractions,    \* the rows of the extractions table
    sv_table,       \* the profiles table shared by concurrent save_profile calls
    sv_pc,          \* per request: "idle" | "queried"
    sv_req,         \* per request: the arguments of its save_profile call
    sv_existing,    \* per request: the row its query found, 0 for none
    sv_last,        \* per normalized name: the arguments of the last committed save
    sv_calls,       \* the number of save_profile calls started
    sc_terpenes,    \* a terpene dict, as its items
    sc_factor,      \* the factor its values are multiplied by
    sc_base,        \* the category of the dict, "" before the call
    sc_scaled,      \* the category of the multiplied dict, "" before the call
    cv_x,           \* the fraction a round trip starts from, in units of 1 / One
    cv_form,        \* how the value was made: "percent", "fraction" or "raw"
    cv_value,       \* the value handed to safe_terpene_value
    cv_result,      \* what safe_terpene_value returned, Pending before the call
    rc_redis,       \* CacheService.redis: "unset", "client" or "None"
    rc_store,       \* the analysis keys of the Redis store: url -> stored string
    rc_before,      \* the store when the request came in
    rc_n,           \* the number of requests so far
    rc_url,         \* the URL of the request
    rc_pc,          \* the position of POST /analyze-url
    rc_cached,      \* what cache_service.get returned
    rc_analysis,    \* how analyzer.analyze_url ended, "None" when it was not called
    rc_get_fault,   \* the cache was not connected or its read raised
    rc_set_fault,   \* the cache was not connected or its write raised
    rc_escaped,     \* an exception of the cache reached the route
    rc_http,        \* the status and body sent to the caller
    ef_terpenes,    \* the terpene dict given to generate_effects_profile, as its items
    ef_result,      \* what generate_effects_profile returned
    in_totals,      \* the totals given to generate_cannabinoid_insights, in thousandths
    in_result,      \* the insights it returned, NoInsights before the call
    \* ---- the strain-name normalizers applied to one name ----
    nm_name,        \* the name, a sequence of characters
    nm_api,         \* what StrainAnalyzer.normalize_strain_name returned, NotRun before
    nm_title,       \* what normalize_strain_name(name, title_case=True) returned
    nm_table,       \* the profiles table of this specification
    nm_hit,         \* "hit"/"miss" of the lookup by the stored key, "not run" before
    \* ---- classify_terpene_profile applied to one dict in two key orders ----
    od_items,       \* the items of the dict in one insertion order
    od_perm,        \* the same items in another insertion order
    od_cat,         \* the category of od_items, "" before the call
    od_cat_perm,    \* the category of od_perm, "" before the call
    \* ---- check_rate_limit called concurrently for one client ----
    rl_store,       \* the counter key in Redis: its value and its expiry
    rl_pc,          \* position of each call in check_rate_limit
    rl_current,     \* the value each call read
    rl_allowed,     \* the calls allowed since the current window opened
    rl_window,      \* the seconds since the current window opened
    rl_quiet,       \* the seconds since the client last sent a request
    rl_last         \* what the last finished call did

mergeVars == <<mg_kind, mg_args, mg_out>>
classVars == <<cl_terpenes, cl_result>>
pipeVars == <<pc, has_api_key, profiles, scraped, strain_name, coa_terpenes, coa_totals,
              coa_url, coa_lab, coa_date, coa_i, db_terpenes, db_totals,
              cached_at, api_step, api_terpenes, api_totals, api_source,
              merged_terpenes, merged_totals, all_sources, category,
              save_result, result, log, traditional_label, extractions>>
saveVars == <<sv_table, sv_pc, sv_req, sv_existing, sv_last, sv_calls>>
scaleVars == <<sc_terpenes, sc_factor, sc_base, sc_scaled>>
convVars == <<cv_x, cv_form, cv_value, cv_result>>
cacheVars == <<rc_redis, rc_store, rc_before, rc_n, rc_url, rc_pc, rc_cached, rc_analysis,
               rc_get_fault, rc_set_fault, rc_escaped, rc_http>>
effectVars == <<ef_terpenes, ef_result>>
insightVars == <<in_totals, in_result>>
nameVars == <<nm_name, nm_api, nm_title, nm_table, nm_hit>>
orderVars == <<od_items, od_perm, od_cat, od_cat_perm>>
rateVars == <<rl_store, rl_pc, rl_current, rl_allowed, rl_window, rl_quiet, rl_last>>
vars == <<mergeVars, classVars, pipeVars, saveVars, scaleVars, convVars, cacheVars, effectVars, insightVars, nameVars, orderVars, rateVars>>

MergeOff == mg_kind = "off" /\ mg_args = <<>> /\ mg_out = [done |-> FALSE]
ClassOff == cl_terpenes = <<>> /\ cl_result = "off"

NotScraped == [strain_name |-> NoneName, terpenes |-> <<>>, totals |-> EmptyTotals,
               coa_links |-> <<>>]

\* analyze_url lines 150-165: the containers before any source was read
Containers ==
    /\ coa_terpenes = <<>> /\ coa_totals = EmptyTotals
    /\ coa_url = None /\ coa_lab = None /\ coa_date = None
    /\ db_terpenes = <<>> /\ db_totals = EmptyTotals /\ cached_at = "None"
    /\ api_terpenes = <<>> /\ api_totals = EmptyTotals /\ api_source = "None"

PipeStart ==
    /\ scraped = NotScraped /\ strain_name = NoneName
    /\ Containers
    /\ coa_i = 0 /\ api_step = 0
    /\ merged_terpenes = <<>> /\ merged_totals = EmptyTotals
    /\ all_sources = <<>> /\ category = "None"
    /\ save_result = "None" /\ result = "None" /\ log = <<>>
    /\ traditional_label = "None" /\ extractions = <<>>

SaveOff ==
    /\ sv_table = <<>> /\ sv_pc = <<>> /\ sv_req = <<>> /\ sv_existing = <<>>
    /\ sv_last = <<>> /\ sv_calls = 0

Pending == [kind |-> "pending", v |-> 0]
ConvOff == cv_x = 0 /\ cv_form = "off" /\ cv_value = PyNone /\ cv_result = Pending

NoInsights == <<"not called">>
InsightOff == in_totals = <<>> /\ in_result = NoInsights

\* a normalizer that has not run yet
NotRun == <<"<not run>">>
NameOff ==
    /\ nm_name = <<>> /\ nm_api = NotRun /\ nm_title = NotRun
    /\ nm_table = <<>> /\ nm_hit = "off"

OrderOff == od_items = <<>> /\ od_perm = <<>> /\ od_cat = "off" /\ od_cat_perm = "off"

NoKey == [count |-> None, ttl |-> None]
RateOff ==
    /\ rl_store = NoKey /\ rl_pc = <<>> /\ rl_current = <<>> /\ rl_allowed = 0
    /\ rl_window = 0 /\ rl_quiet = 0 /\ rl_last = "off"

NoEffects == [called |-> FALSE]
EffectOff == ef_terpenes = <<>> /\ ef_result = NoEffects

NoHttp == [status |-> 0, body |-> "None"]
RequestStart ==
    /\ rc_cached = "None" /\ rc_analysis = "None" /\ rc_get_fault = FALSE
    /\ rc_set_fault = FALSE /\ rc_escaped = FALSE /\ rc_http = NoHttp
CacheOff ==
    /\ rc_redis = "unset" /\ rc_store = <<>> /\ rc_before = <<>> /\ rc_n = 0
    /\ rc_url = "" /\ rc_pc = "off" /\ RequestStart

ScaleOff == sc_terpenes = <<>> /\ sc_factor = 0 /\ sc_base = "off" /\ sc_scaled = "off"

PipeOff == pc = "off" /\ has_api_key = FALSE /\ profiles = <<>> /\ PipeStart

\* ---------------------------------------------------------------------------
\* The merge functions applied to bounded arguments
\* ---------------------------------------------------------------------------
MergeKeyA == "myrcene"
MergeKeyB == "limonene"

\* dict arguments: None, or a dict in which MergeKeyA is absent or holds any
\* value (None, negative, zero, positive) and MergeKeyB is absent or holds 1
MergeDictArgs ==
    {NoneDict} \cup
    {Dict(d) : d \in {f \in UNION {[S -> Vals] : S \in SUBSET {MergeKeyA, MergeKeyB}} :
                        MergeKeyB \in DOMAIN f => f[MergeKeyB] = 1}}

MergeFieldA == "thc"
MergeFieldB == "cbd"

\* Totals arguments: None, or a Totals whose MergeFieldA holds any value and
\* whose MergeFieldB is None or 1, the other fields None
MergeTotalsArgs ==
    {NoneTotals} \cup
    {TotalsObj([f \in CannFieldSet |->
                  IF f = MergeFieldA THEN a ELSE IF f = MergeFieldB THEN b ELSE None]) :
        a \in Vals, b \in {None, 1}}

InitMerge ==
    /\ \/ mg_kind = "terpenes" /\ mg_args \in [1..4 -> MergeDictArgs]
       \/ mg_kind = "totals" /\ mg_args \in [1..4 -> MergeTotalsArgs]
    /\ mg_out = [done |-> FALSE]
    /\ ClassOff
    /\ PipeOff
    /\ SaveOff
    /\ ScaleOff
    /\ ConvOff
    /\ CacheOff
    /\ EffectOff
    /\ InsightOff
    /\ NameOff
    /\ OrderOff
    /\ RateOff

MergeTerpenes ==
    /\ mg_kind = "terpenes"
    /\ ~mg_out.done
    /\ LET r == merge_terpene_data(mg_args[1], mg_args[2], mg_args[3], mg_args[4])
       IN  mg_out' = [done |-> TRUE, merged |-> r.merged, used |-> r.used]
    /\ UNCHANGED <<mg_kind, mg_args, classVars, pipeVars, saveVars, scaleVars, convVars, cacheVars, effectVars, insightVars, nameVars, orderVars, rateVars>>

MergeCannabinoids ==
    /\ mg_kind = "totals"
    /\ ~mg_out.done
    /\ LET r == merge_cannabinoid_data(mg_args[1], mg_args[2], mg_args[3], mg_args[4])
       IN  mg_out' = [done |-> TRUE, merged |-> r.merged, used |-> r.used]
    /\ UNCHANGED <<mg_kind, mg_args, classVars, pipeVars, saveVars, scaleVars, convVars, cacheVars, effectVars, insightVars, nameVars, orderVars, rateVars>>

NextMerge == MergeTerpenes \/ MergeCannabinoids
SpecMerge == InitMerge /\ [][NextMerge]_vars

\* ---------------------------------------------------------------------------
\* The classifier applied to bounded terpene dicts
\* ---------------------------------------------------------------------------
\* the keys of the argument dicts, in the order they are inserted
ClassKeys == <<"myrcene", "limonene", "caryophyllene", "alpha_pinene",
               "beta_pinene", "terpinolene", "humulene", "Beta_Myrcene">>

RECURSIVE ItemsOf(_, _)
\* the items of the dict that holds d, inserted in the order of keys
ItemsOf(keys, d) ==
    IF keys = <<>> THEN <<>>
    ELSE IF Head(keys) \in DOMAIN d
         THEN <<(<<Head(keys), d[Head(keys)]>>)>> \o ItemsOf(Tail(keys), d)
         ELSE ItemsOf(Tail(keys), d)

Reverse(s) == [i \in 1..Len(s) |-> s[Len(s) + 1 - i]]

ClassKeySet == {ClassKeys[i] : i \in 1..Len(ClassKeys)}

\* dicts of at most MaxLen items, values of every kind, keys inserted in the
\* order of ClassKeys or in the reverse order
InitClassify ==
    /\ \E S \in SUBSET ClassKeySet :
          /\ Cardinality(S) <= MaxLen
          /\ \E d \in [S -> Vals], order \in {ClassKeys, Reverse(ClassKeys)} :
                cl_terpenes = ItemsOf(order, d)
    /\ cl_result = ""
    /\ MergeOff
    /\ PipeOff
    /\ SaveOff
    /\ ScaleOff
    /\ ConvOff
    /\ CacheOff
    /\ EffectOff
    /\ InsightOff
    /\ NameOff
    /\ OrderOff
    /\ RateOff

Classify ==
    /\ cl_result = ""
    /\ cl_result' = classify_terpene_profile(cl_terpenes)
    /\ UNCHANGED <<cl_terpenes, mergeVars, pipeVars, saveVars, scaleVars, convVars, cacheVars, effectVars, insightVars, nameVars, orderVars, rateVars>>

NextClassify == Classify
SpecClassify == InitClassify /\ [][NextClassify]_vars

\* ---------------------------------------------------------------------------
\* analyze_url (app/services/analyzer.py 127-352), one request.  Each action
\* is one call of a collaborator together with the code that follows it up to
\* the next call.
\* ---------------------------------------------------------------------------
BlueDream == <<"B", "l", "u", "e", " ", "D", "r", "e", "a", "m">>
BlueDreamJoined == <<"B", "l", "u", "e", "D", "r", "e", "a", "m">>
Punctuation == <<"#", "!">>
UnknownStrain == <<"U", "n", "k", "n", "o", "w", "n", " ", "S", "t", "r", "a", "i", "n">>

\* what the page can give
ScrapedNames == {NoneName, BlueDream, BlueDreamJoined, Punctuation}
PageTerpenes ==
    {<<>>,
     [myrcene |-> 2, limonene |-> 1],
     [myrcene |-> 2, limonene |-> 0],
     [myrcene |-> 3, limonene |-> 2, caryophyllene |-> 1, alpha_pinene |-> 1,
      humulene |-> 1]}
PageTotals == {EmptyTotals, TotalsOf([thc |-> 2]), TotalsOf([thcv |-> 1])}
\* the links in the order the page lists them, which is not the order of the ids
CoaLinkLists == {[i \in 1..n |-> n + 1 - i] : n \in 0..MaxLinks}

\* the documents behind a COA link
CoaDocs(link) ==
    {[strain_name |-> NoneName, terpenes |-> <<>>, totals |-> EmptyTotals,
      lab_name |-> 100 + link, test_date |-> 200 + link],
     [strain_name |-> NoneName, terpenes |-> [myrcene |-> 0], totals |-> EmptyTotals,
      lab_name |-> 100 + link, test_date |-> 200 + link]}
    \cup
    {[strain_name |-> n,
      terpenes |-> [myrcene |-> link, beta_pinene |-> 1, terpinolene |-> 1],
      totals |-> TotalsOf([thca |-> 3]),
      lab_name |-> 100 + link, test_date |-> 200 + link] : n \in {NoneName, BlueDream}}

\* the strains a strain API can hold under a name
ApiStrains ==
    {[strain_name |-> NoneName, terpenes |-> <<>>, totals |-> EmptyTotals],
     [strain_name |-> NoneName, terpenes |-> [limonene |-> 2, terpinolene |-> 1],
      totals |-> TotalsOf([cbd |-> 1])],
     [strain_name |-> NoneName, terpenes |-> <<>>, totals |-> TotalsOf([thc |-> 2])]}

\* the profiles table before the request
StoredRow ==
    [strain_normalized |-> ProfileCacheService_normalize_strain_name(BlueDream),
     terp_vector |-> [caryophyllene |-> 2, alpha_pinene |-> 1, humulene |-> 1],
     totals |-> model_dump(TotalsOf([cbg |-> 1])),
     category |-> "PURPLE", source |-> "page", created_at |-> "earlier"]
InitialTables == {<<>>, <<StoredRow>>}

Entry(op, link, name, client, ok, ret) ==
    [op |-> op, link |-> link, name |-> name, client |-> client, ok |-> ok,
     ret |-> ret]

InitAnalyze ==
    /\ MergeOff
    /\ ClassOff
    /\ SaveOff
    /\ ScaleOff
    /\ ConvOff
    /\ CacheOff
    /\ EffectOff
    /\ InsightOff
    /\ NameOff
    /\ OrderOff
    /\ RateOff
    /\ pc = "scrape"
    /\ profiles \in InitialTables
    /\ has_api_key \in BOOLEAN
    /\ PipeStart

\* line 147 returns, lines 148-168
Scrape ==
    /\ pc = "scrape"
    /\ \E n \in ScrapedNames, tp \in PageTerpenes, tt \in PageTotals,
          links \in CoaLinkLists :
          /\ scraped' = [strain_name |-> n, terpenes |-> tp, totals |-> tt,
                         coa_links |-> links]
          /\ strain_name' = IF NameTruthy(n) THEN n ELSE UnknownStrain
          /\ coa_i' = IF links # <<>> THEN 1 ELSE 0
          /\ pc' = IF links # <<>> THEN "coa" ELSE "db"
    /\ log' = Append(log, Entry("scrape_url", 0, NoneName, "scraper", TRUE, NoData))
    /\ UNCHANGED <<mergeVars, classVars, saveVars, scaleVars, convVars, cacheVars, effectVars, insightVars, nameVars, orderVars, rateVars, traditional_label, extractions, profiles, has_api_key, coa_terpenes,
                   coa_totals, coa_url, coa_lab, coa_date, db_terpenes, db_totals,
                   cached_at, api_step, api_terpenes, api_totals, api_source,
                   merged_terpenes, merged_totals, all_sources, category,
                   save_result, result>>

\* line 147 raises (scraper.py 268-270): nothing in analyze_url catches it
ScrapeRaises ==
    /\ pc = "scrape"
    /\ log' = Append(log, Entry("scrape_url", 0, NoneName, "scraper", FALSE, NoData))
    /\ result' = "Exception"
    /\ pc' = "done"
    /\ UNCHANGED <<mergeVars, classVars, saveVars, scaleVars, convVars, cacheVars, effectVars, insightVars, nameVars, orderVars, rateVars, traditional_label, extractions, profiles, has_api_key, scraped, strain_name,
                   coa_terpenes, coa_totals, coa_url, coa_lab, coa_date, coa_i,
                   db_terpenes, db_totals, cached_at, api_step, api_terpenes,
                   api_totals, api_source, merged_terpenes, merged_totals,
                   all_sources, category, save_result>>

\* lines 170-181: one turn of the COA loop
ParseCoa ==
    /\ pc = "coa"
    /\ LET coa_link == scraped.coa_links[coa_i] IN
       \E outcome \in HttpOutcomes, doc \in CoaDocs(coa_link) :
          LET coa_data == parse_coa(has_api_key, outcome, doc)
              success  == ~coa_data.none /\ DOMAIN coa_data.terpenes # {}
              next     == NextCoaIndex(coa_i, success, Len(scraped.coa_links))
          IN  /\ log' = Append(log, Entry("parse_coa", coa_link, NoneName,
                                          "cannlytics", success, coa_data))
              /\ IF success
                 THEN /\ coa_terpenes' = coa_data.terpenes
                      /\ coa_totals' = coa_data.totals
                      /\ coa_url' = coa_link
                      /\ coa_lab' = coa_data.lab_name
                      /\ coa_date' = coa_data.test_date
                      /\ strain_name' = IF NameTruthy(coa_data.strain_name)
                                        THEN coa_data.strain_name ELSE strain_name
                 ELSE UNCHANGED <<coa_terpenes, coa_totals, coa_url, coa_lab,
                                  coa_date, strain_name>>
              /\ coa_i' = next
              /\ pc' = IF next = 0 THEN "db" ELSE "coa"
    /\ UNCHANGED <<mergeVars, classVars, saveVars, scaleVars, convVars, cacheVars, effectVars, insightVars, nameVars, orderVars, rateVars, traditional_label, extractions, profiles, has_api_key, scraped,
                   db_terpenes, db_totals, cached_at, api_step, api_terpenes,
                   api_totals, api_source, merged_terpenes, merged_totals,
                   all_sources, category, save_result, result>>

\* lines 184-193: the database lookup returns
DbLookup ==
    /\ pc = "db"
    /\ IF NameTruthy(strain_name)
       THEN LET cached_profile == get_cached_profile(profiles, strain_name) IN
            /\ log' = Append(log, Entry("get_cached_profile", 0, strain_name,
                                        "profile_cache", cached_profile.found, NoData))
            /\ db_terpenes' = IF cached_profile.found
                                 /\ DOMAIN cached_profile.terpenes # {}
                              THEN cached_profile.terpenes ELSE db_terpenes
            /\ db_totals' = IF cached_profile.found THEN cached_profile.totals
                            ELSE db_totals
            /\ cached_at' = IF cached_profile.found THEN cached_profile.cached_at
                            ELSE cached_at
       ELSE UNCHANGED <<log, db_terpenes, db_totals, cached_at>>
    /\ pc' = "gate"
    /\ UNCHANGED <<mergeVars, classVars, saveVars, scaleVars, convVars, cacheVars, effectVars, insightVars, nameVars, orderVars, rateVars, traditional_label, extractions, profiles, has_api_key, scraped, strain_name,
                   coa_terpenes, coa_totals, coa_url, coa_lab, coa_date, coa_i,
                   api_step, api_terpenes, api_totals, api_source, merged_terpenes,
                   merged_totals, all_sources, category, save_result, result>>

\* line 186 raises (profile_cache.py 41-68 has try/finally and no except):
\* nothing in analyze_url catches it
DbLookupRaises ==
    /\ pc = "db"
    /\ NameTruthy(strain_name)
    /\ log' = Append(log, Entry("get_cached_profile", 0, strain_name,
                                "profile_cache", FALSE, NoData))
    /\ result' = "Exception"
    /\ pc' = "done"
    /\ UNCHANGED <<mergeVars, classVars, saveVars, scaleVars, convVars, cacheVars, effectVars, insightVars, nameVars, orderVars, rateVars, traditional_label, extractions, profiles, has_api_key, scraped, strain_name,
                   coa_terpenes, coa_totals, coa_url, coa_lab, coa_date, coa_i,
                   db_terpenes, db_totals, cached_at, api_step, api_terpenes,
                   api_totals, api_source, merged_terpenes, merged_totals,
                   all_sources, category, save_result>>

\* lines 197-198: the merge the gate looks at
preliminary_terpenes ==
    StrainAnalyzer_merge_terpene_data(Dict(coa_terpenes), Dict(scraped.terpenes),
                                      Dict(db_terpenes), EmptyDict).merged
preliminary_totals ==
    StrainAnalyzer_merge_cannabinoid_data(TotalsObj(coa_totals),
                                          TotalsObj(scraped.totals),
                                          TotalsObj(db_totals),
                                          TotalsObj(EmptyTotals)).merged

\* lines 197-201 and 238-239: the completeness gate
Gate ==
    /\ pc = "gate"
    /\ LET complete == is_data_complete(preliminary_terpenes, preliminary_totals) IN
       /\ log' = Append(log, Entry("is_data_complete", 0, strain_name, "analyzer",
                                   complete, NoData))
       /\ api_step' = IF complete THEN 0 ELSE 1
       /\ pc' = IF complete THEN "merge" ELSE "api"
    /\ UNCHANGED <<mergeVars, classVars, saveVars, scaleVars, convVars, cacheVars, effectVars, insightVars, nameVars, orderVars, rateVars, traditional_label, extractions, profiles, has_api_key, scraped, strain_name,
                   coa_terpenes, coa_totals, coa_url, coa_lab, coa_date, coa_i,
                   db_terpenes, db_totals, cached_at, api_terpenes, api_totals,
                   api_source, merged_terpenes, merged_totals, all_sources,
                   category, save_result, result>>

\* lines 206-237: one call of the fallback chain; after the last call of the
\* chain, lines 230-237
ApiCall ==
    /\ pc = "api"
    /\ LET call == ApiChain[api_step]
           name == IF call.normalized
                   THEN StrainAnalyzer_normalize_strain_name(strain_name)
                   ELSE strain_name
       IN
       \E outcome \in HttpOutcomes, strain \in ApiStrains :
          LET strain_data == IF call.client = "cannlytics"
                             THEN Cannlytics_get_strain_data(name, outcome, strain)
                             ELSE Kushy_get_strain_data(name, outcome, strain)
              next == NextApiStep(api_step, ~strain_data.none)
          IN  /\ log' = Append(log, Entry("get_strain_data", 0, name, call.client,
                                          ~strain_data.none, strain_data))
              /\ api_step' = next
              /\ pc' = IF next = 0 THEN "merge" ELSE "api"
              /\ IF next = 0 /\ ~strain_data.none
                 THEN /\ api_terpenes' = IF DOMAIN strain_data.terpenes # {}
                                         THEN strain_data.terpenes ELSE api_terpenes
                      /\ api_totals' = strain_data.totals
                      /\ api_source' = strain_data.source
                      /\ strain_name' = strain_data.strain_name
                 ELSE UNCHANGED <<api_terpenes, api_totals, api_source, strain_name>>
    /\ UNCHANGED <<mergeVars, classVars, saveVars, scaleVars, convVars, cacheVars, effectVars, insightVars, nameVars, orderVars, rateVars, traditional_label, extractions, profiles, has_api_key, scraped,
                   coa_terpenes, coa_totals, coa_url, coa_lab, coa_date, coa_i,
                   db_terpenes, db_totals, cached_at, merged_terpenes,
                   merged_totals, all_sources, category, save_result, result>>

\* lines 243-281: the final merge, the no-data error, the classification and
\* the decision to save.  The merged dict is filled in the iteration order of
\* a set of keys, which is any order.
Merge ==
    /\ pc = "merge"
    /\ LET mt == StrainAnalyzer_merge_terpene_data(
                    Dict(coa_terpenes), Dict(scraped.terpenes), Dict(db_terpenes),
                    Dict(api_terpenes))
           mc == StrainAnalyzer_merge_cannabinoid_data(
                    TotalsObj(coa_totals), TotalsObj(scraped.totals),
                    TotalsObj(db_totals), TotalsObj(api_totals))
           sources == all_sources_of(mt.used, mc.used)
           has_terpenes == DOMAIN mt.merged # {}
           has_cannabinoids == has_cannabinoids_of(mc.merged)
       IN
       /\ merged_terpenes' = mt.merged
       /\ merged_totals' = mc.merged
       /\ all_sources' = sources
       /\ IF ~has_terpenes /\ ~has_cannabinoids
          THEN /\ result' = "ValueError"
               /\ category' = category
               /\ pc' = "done"
          ELSE \E order \in {ClassKeys, Reverse(ClassKeys)} :
               LET c == IF has_terpenes
                        THEN classify_terpene_profile(ItemsOf(order, mt.merged))
                        ELSE "None"
               IN  IF c = "ZeroDivisionError"
                   THEN /\ result' = "Exception"
                        /\ category' = category
                        /\ pc' = "done"
                   ELSE /\ result' = result
                        /\ category' = c
                        /\ pc' = IF ShouldSave(sources, mt.merged, c, strain_name)
                                 THEN "save" ELSE "respond"
    /\ UNCHANGED <<mergeVars, classVars, saveVars, scaleVars, convVars, cacheVars, effectVars, insightVars, nameVars, orderVars, rateVars, traditional_label, extractions, profiles, has_api_key, scraped, strain_name,
                   coa_terpenes, coa_totals, coa_url, coa_lab, coa_date, coa_i,
                   db_terpenes, db_totals, cached_at, api_step, api_terpenes,
                   api_totals, api_source, save_result, log>>

\* what can happen inside the session of save_profile
SaveOutcomes == {"ok", "query_raises", "commit_raises"}

\* ProfileCacheService.save_profile, profile_cache.py 70-144: the table after
\* the call and the value returned
save_profile(table, name, terpenes, totals, cat, source, outcome) ==
    LET pending == SessionPending(table, name, terpenes, totals, cat, source) IN
    IF outcome = "ok" THEN [table |-> pending, ret |-> "True"]
    ELSE IF outcome = "query_raises"
         THEN [table |-> Rollback(table, table), ret |-> "False"]
         ELSE [table |-> Rollback(table, pending), ret |-> "False"]

\* lines 282-290: the save; its return value is not looked at
SaveProfile ==
    /\ pc = "save"
    /\ LET primary_source == IF InSeq("coa", all_sources) THEN "coa" ELSE "page" IN
       \E outcome \in SaveOutcomes :
          LET r == save_profile(profiles, strain_name, merged_terpenes,
                                merged_totals, category, primary_source, outcome)
          IN  /\ profiles' = r.table
              /\ save_result' = r.ret
              /\ log' = Append(log, Entry("save_profile", 0, strain_name,
                                          "profile_cache", r.ret = "True", NoData))
    /\ pc' = "respond"
    /\ UNCHANGED <<mergeVars, classVars, saveVars, scaleVars, convVars, cacheVars, effectVars, insightVars, nameVars, orderVars, rateVars, traditional_label, extractions, has_api_key, scraped, strain_name,
                   coa_terpenes, coa_totals, coa_url, coa_lab, coa_date, coa_i,
                   db_terpenes, db_totals, cached_at, api_step, api_terpenes,
                   api_totals, api_source, merged_terpenes, merged_totals,
                   all_sources, category, result>>

\* schemas.py 71: the field's default, which the constructor call of
\* analyzer.py 342-352 leaves in place since it passes no traditional_label
AnalyzeUrlResponse_traditional_label == "None"

\* lines 292-352: the response is built and returned
Respond ==
    /\ pc = "respond"
    /\ result' = "response"
    /\ traditional_label' = AnalyzeUrlResponse_traditional_label
    /\ pc' = "done"
    /\ UNCHANGED <<mergeVars, classVars, saveVars, scaleVars, convVars, cacheVars, effectVars, insightVars, nameVars, orderVars, rateVars, extractions, profiles, has_api_key, scraped, strain_name,
                   coa_terpenes, coa_totals, coa_url, coa_lab, coa_date, coa_i,
                   db_terpenes, db_totals, cached_at, api_step, api_terpenes,
                   api_totals, api_source, merged_terpenes, merged_totals,
                   all_sources, category, save_result, log>>

NextAnalyze ==
    \/ Scrape
    \/ ScrapeRaises
    \/ ParseCoa
    \/ DbLookup
    \/ DbLookupRaises
    \/ Gate
    \/ ApiCall
    \/ Merge
    \/ SaveProfile
    \/ Respond
SpecAnalyze == InitAnalyze /\ [][NextAnalyze]_vars

\* ---------------------------------------------------------------------------
\* Concurrent save_profile calls (profile_cache.py 70-144).  Each request has
\* its own session: the query (lines 98-100) and the commit (line 135) are
\* separate steps, and other requests can run between them.
\* ---------------------------------------------------------------------------
Procs == 1..MaxProcs

BlueDreamFlower == <<"B", "l", "u", "e", " ", "D", "r", "e", "a", "m", " ", "F", "l", "o", "w", "e", "r">>
SaveNames == {BlueDream, BlueDreamFlower, BlueDreamJoined}
\* the arguments of a save_profile call
SaveRequests ==
    {[name |-> n, terpenes |-> [myrcene |-> 2], totals |-> EmptyTotals,
      category |-> "BLUE", source |-> "page"] : n \in SaveNames}
    \cup
    {[name |-> n, terpenes |-> [limonene |-> 2], totals |-> TotalsOf([thc |-> 2]),
      category |-> "ORANGE", source |-> "coa"] : n \in SaveNames}
NoRequest == [name |-> NoneName, terpenes |-> <<>>, totals |-> EmptyTotals,
              category |-> "None", source |-> "None"]

\* the fields a save writes
WrittenFields(terpenes, totals, cat, source) ==
    [terp_vector |-> terpenes, totals |-> model_dump(totals), category |-> cat,
     source |-> source]

InitSave ==
    /\ MergeOff
    /\ ClassOff
    /\ PipeOff
    /\ ScaleOff
    /\ ConvOff
    /\ CacheOff
    /\ EffectOff
    /\ InsightOff
    /\ NameOff
    /\ OrderOff
    /\ RateOff
    /\ sv_table \in InitialTables
    /\ sv_pc = [p \in Procs |-> "idle"]
    /\ sv_req = [p \in Procs |-> NoRequest]
    /\ sv_existing = [p \in Procs |-> 0]
    /\ sv_last = [n \in {sv_table[i].strain_normalized : i \in 1..Len(sv_table)} |->
                    LET row == sv_table[QueryFirst(sv_table, n)] IN
                    [terp_vector |-> row.terp_vector, totals |-> row.totals,
                     category |-> row.category, source |-> row.source]]
    /\ sv_calls = 0

\* lines 93-100: a request enters save_profile and its query returns
SaveQuery(p) ==
    /\ sv_pc[p] = "idle"
    /\ sv_calls < MaxSaves
    /\ \E req \in SaveRequests :
          /\ sv_req' = [sv_req EXCEPT ![p] = req]
          /\ sv_existing' = [sv_existing EXCEPT ![p] =
                QueryFirst(sv_table, ProfileCacheService_normalize_strain_name(req.name))]
    /\ sv_pc' = [sv_pc EXCEPT ![p] = "queried"]
    /\ sv_calls' = sv_calls + 1
    /\ UNCHANGED <<mergeVars, classVars, pipeVars, scaleVars, convVars, cacheVars, effectVars, insightVars, nameVars, orderVars, rateVars, sv_table, sv_last>>

\* lines 98-100 raise, lines 139-144: nothing was written, False is returned
SaveQueryRaises(p) ==
    /\ sv_pc[p] = "idle"
    /\ sv_calls < MaxSaves
    /\ sv_calls' = sv_calls + 1
    /\ sv_table' = Rollback(sv_table, sv_table)
    /\ UNCHANGED <<mergeVars, classVars, pipeVars, scaleVars, convVars, cacheVars, effectVars, insightVars, nameVars, orderVars, rateVars, sv_pc, sv_req, sv_existing,
                   sv_last>>

\* lines 102-137: the row is updated or added and the session commits
SaveCommit(p) ==
    /\ sv_pc[p] = "queried"
    /\ LET req == sv_req[p]
           normalized_name == ProfileCacheService_normalize_strain_name(req.name)
       IN  /\ sv_table' = SessionWrite(sv_table, sv_existing[p], normalized_name,
                                       req.terpenes, req.totals, req.category,
                                       req.source)
           /\ sv_last' = [n \in DOMAIN sv_last \cup {normalized_name} |->
                            IF n = normalized_name
                            THEN WrittenFields(req.terpenes, req.totals, req.category,
                                               req.source)
                            ELSE sv_last[n]]
    /\ sv_pc' = [sv_pc EXCEPT ![p] = "idle"]
    /\ UNCHANGED <<mergeVars, classVars, pipeVars, scaleVars, convVars, cacheVars, effectVars, insightVars, nameVars, orderVars, rateVars, sv_req, sv_existing, sv_calls>>

\* line 135 raises, lines 139-144: rollback, False is returned
SaveCommitRaises(p) ==
    /\ sv_pc[p] = "queried"
    /\ LET req == sv_req[p]
           normalized_name == ProfileCacheService_normalize_strain_name(req.name)
       IN  sv_table' = Rollback(sv_table,
                                SessionWrite(sv_table, sv_existing[p], normalized_name,
                                             req.terpenes, req.totals, req.category,
                                             req.source))
    /\ sv_pc' = [sv_pc EXCEPT ![p] = "idle"]
    /\ UNCHANGED <<mergeVars, classVars, pipeVars, scaleVars, convVars, cacheVars, effectVars, insightVars, nameVars, orderVars, rateVars, sv_req, sv_existing, sv_last,
                   sv_calls>>

NextSave ==
    \E p \in Procs :
        \/ SaveQuery(p)
        \/ SaveQueryRaises(p)
        \/ SaveCommit(p)
        \/ SaveCommitRaises(p)
SpecSave == InitSave /\ [][NextSave]_vars

\* ---------------------------------------------------------------------------
\* The classifier applied to a terpene dict and to the same dict with every
\* value multiplied by a factor
\* ---------------------------------------------------------------------------
ScaleFactors == {2, 100}
ScaleValues == 0..MaxVal

\* {k: v * factor for k, v in terpenes.items()}
Scaled(items, factor) ==
    [i \in 1..Len(items) |-> <<items[i][1], items[i][2] * factor>>]

InitScale ==
    /\ MergeOff
    /\ ClassOff
    /\ PipeOff
    /\ SaveOff
    /\ ConvOff
    /\ CacheOff
    /\ EffectOff
    /\ InsightOff
    /\ NameOff
    /\ OrderOff
    /\ RateOff
    /\ \E S \in SUBSET ClassKeySet :
          /\ Cardinality(S) <= MaxLen
          /\ \E d \in [S -> ScaleValues] : sc_terpenes = ItemsOf(ClassKeys, d)
    /\ sc_factor \in ScaleFactors
    /\ sc_base = ""
    /\ sc_scaled = ""

ClassifyBase ==
    /\ sc_base = ""
    /\ \E err \in [ValuesOf(normalize_terpene_profile(sc_terpenes)) -> RoundingErrors] :
          sc_base' = classify_terpene_profile_float(sc_terpenes, err)
    /\ UNCHANGED <<mergeVars, classVars, pipeVars, saveVars, convVars, cacheVars, effectVars, insightVars, nameVars, orderVars, rateVars, sc_terpenes,
                   sc_factor, sc_scaled>>

ClassifyScaled ==
    /\ sc_scaled = ""
    /\ LET items == Scaled(sc_terpenes, sc_factor) IN
       \E err \in [ValuesOf(normalize_terpene_profile(items)) -> RoundingErrors] :
          sc_scaled' = classify_terpene_profile_float(items, err)
    /\ UNCHANGED <<mergeVars, classVars, pipeVars, saveVars, convVars, cacheVars, effectVars, insightVars, nameVars, orderVars, rateVars, sc_terpenes,
                   sc_factor, sc_base>>

NextScale == ClassifyBase \/ ClassifyScaled
SpecScale == InitScale /\ [][NextScale]_vars

\* ---------------------------------------------------------------------------
\* safe_terpene_value applied to the string forms of a fraction and to raw
\* values of an external source
\* ---------------------------------------------------------------------------
\* the fractions of (0, 1] on a grid that has 0.01 and points on both sides
XStep == 25
XValues == {k * XStep : k \in 1..(One \div XStep)}

\* x * 100 in double precision: the product, or a float next to it, since x
\* itself is a decimal rounded to a float; 0.01 * 100 evaluates to exactly 1.0
PercentOf(x, err) == IF 100 * x = One THEN One ELSE 100 * x + err

RawChars == {"0", "1", "5", ".", "-", "+", " "}
RawWords ==
    {<<"n", "a", "n">>, <<"N", "a", "N">>, <<"-", "n", "a", "n">>, <<"n", "o", "n", "e">>,
     <<"N", "o", "n", "e">>, <<"n", "u", "l", "l">>, <<"n", "d">>, <<"N", "D">>,
     <<"n", "/", "a">>, <<"N", "/", "A">>, <<"<", "l", "o", "q">>, <<"<", "L", "O", "Q">>,
     <<"a", "b", "c">>, <<"i", "n", "f">>, <<"-", "i", "n", "f">>,
     <<"I", "n", "f", "i", "n", "i", "t", "y">>, <<"T", "r", "u", "e">>, <<"1", "5", "0", ".", "0">>}
RawFloats ==
    {Num(One \div 2), Num(150 * One), Num(0), Num(0 - 3 * (One \div 2)), Inf(1), Inf(0 - 1), NaN}
RawInts == {0 - 5, 0, 1, 5, 42, 100, 101}

InitConvert ==
    /\ MergeOff
    /\ ClassOff
    /\ PipeOff
    /\ SaveOff
    /\ ScaleOff
    /\ CacheOff
    /\ EffectOff
    /\ InsightOff
    /\ NameOff
    /\ OrderOff
    /\ RateOff
    /\ cv_result = Pending
    /\ \/ /\ cv_x \in XValues
          /\ cv_form = ""
          /\ cv_value = PyNone
       \/ /\ cv_x = 0
          /\ cv_form = "raw"
          /\ \/ cv_value = PyNone
             \/ \E n \in 0..MaxStr : \E s \in [1..n -> RawChars] : cv_value = PyStr(s)
             \/ \E w \in RawWords : cv_value \in {PyStr(w), PyStr(<<" ">> \o w \o <<" ">>)}
             \/ \E f \in RawFloats : cv_value = PyFloat(f)
             \/ \E n \in RawInts : cv_value = PyInt(n)

\* str(x * 100)
FormatPercent ==
    /\ cv_form = ""
    /\ \E err \in RoundingErrors :
          cv_value' = PyStr(float_str(Num(PercentOf(cv_x, err))))
    /\ cv_form' = "percent"
    /\ UNCHANGED <<mergeVars, classVars, pipeVars, saveVars, scaleVars, cacheVars, effectVars, insightVars, nameVars, orderVars, rateVars, cv_x, cv_result>>

\* str(x)
FormatFraction ==
    /\ cv_form = ""
    /\ cv_value' = PyStr(float_str(Num(cv_x)))
    /\ cv_form' = "fraction"
    /\ UNCHANGED <<mergeVars, classVars, pipeVars, saveVars, scaleVars, cacheVars, effectVars, insightVars, nameVars, orderVars, rateVars, cv_x, cv_result>>

Convert ==
    /\ cv_form \in {"percent", "fraction", "raw"}
    /\ cv_result = Pending
    /\ \E err \in DivisionErrors : cv_result' = safe_terpene_value(cv_value, err)
    /\ UNCHANGED <<mergeVars, classVars, pipeVars, saveVars, scaleVars, cacheVars, effectVars, insightVars, nameVars, orderVars, rateVars, cv_x, cv_form,
                   cv_value>>

NextConvert == FormatPercent \/ FormatFraction \/ Convert
SpecConvert == InitConvert /\ [][NextConvert]_vars

\* ---------------------------------------------------------------------------
\* app/services/cache.py and POST /analyze-url (routes.py 87-116)
\* ---------------------------------------------------------------------------
MaxRequests == 2
Urls == {"u1", "u2"}
\* the model_dump() of the response analyze_url builds for a URL
BodyOf(url) == IF url = "u1" THEN "analysis of u1" ELSE "analysis of u2"
\* json.dumps / json.loads: a stored value is the JSON text of a body or a
\* text that is no JSON; Absent stands for a missing key
json_dumps(body) == [kind |-> "json", body |-> body]
json_loads(stored) == stored.body
NotJson == [kind |-> "text", body |-> "garbage"]
Absent == [kind |-> "absent", body |-> ""]
StoredValues == {Absent} \cup {json_dumps(BodyOf(u)) : u \in Urls} \cup {NotJson}
RedisOutcomes == {"ok", "raises"}
AnalysisOutcomes == {"response", "ValueError", "Exception"}

\* CacheService.connect, lines 17-29
CacheService_connect(outcome) == IF outcome = "ok" THEN "client" ELSE "None"

CacheService_get_Propagates(redis, outcome, stored) ==
    IF redis # "client" THEN [ret |-> "None", raised |-> FALSE]
    ELSE IF outcome = "raises" \/ stored = NotJson THEN [ret |-> "None", raised |-> TRUE]
    ELSE IF stored = Absent THEN [ret |-> "None", raised |-> FALSE]
    ELSE [ret |-> json_loads(stored), raised |-> FALSE]
\* CacheService.get, lines 36-48: what it returns and whether it raises
CacheService_get(redis, outcome, stored) ==
    IF redis # "client" THEN [ret |-> "None", raised |-> FALSE]
    ELSE IF outcome = "raises" \/ stored = NotJson THEN [ret |-> "None", raised |-> FALSE]
    ELSE IF stored = Absent THEN [ret |-> "None", raised |-> FALSE]
    ELSE [ret |-> json_loads(stored), raised |-> FALSE]

\* CacheService.set, lines 50-65: the store it leaves and whether it raises;
\* a setex that raises has written nothing
CacheService_set(redis, outcome, store, key, value) ==
    IF redis # "client" THEN [store |-> store, raised |-> FALSE]
    ELSE IF outcome = "raises" THEN [store |-> store, raised |-> FALSE]
    ELSE [store |-> [store EXCEPT ![key] = json_dumps(value)], raised |-> FALSE]

\* routes.py 109-114 and the framework's answer to an unhandled exception
HttpFor(analysis, url) ==
    IF analysis = "response" THEN [status |-> 200, body |-> BodyOf(url)]
    ELSE IF analysis = "ValueError" THEN [status |-> 404, body |-> "None"]
    ELSE [status |-> 500, body |-> "None"]

InitCache ==
    /\ MergeOff
    /\ ClassOff
    /\ PipeOff
    /\ SaveOff
    /\ ScaleOff
    /\ ConvOff
    /\ EffectOff
    /\ InsightOff
    /\ NameOff
    /\ OrderOff
    /\ RateOff
    /\ rc_redis = "unset"
    /\ rc_store \in [Urls -> StoredValues]
    /\ rc_before = rc_store
    /\ rc_n = 1
    /\ rc_url \in Urls
    /\ rc_pc = "connect"
    /\ RequestStart

\* the application starts: cache_service.connect()
Connect ==
    /\ rc_pc = "connect"
    /\ \E outcome \in RedisOutcomes : rc_redis' = CacheService_connect(outcome)
    /\ rc_pc' = "get"
    /\ UNCHANGED <<mergeVars, classVars, pipeVars, saveVars, scaleVars, convVars, effectVars, insightVars, nameVars, orderVars, rateVars, rc_store,
                   rc_before, rc_n, rc_url, rc_cached, rc_analysis, rc_get_fault,
                   rc_set_fault, rc_escaped, rc_http>>

\* lines 94-99: the cache is read; a hit is returned at once
CacheGet ==
    /\ rc_pc = "get"
    /\ \E outcome \in RedisOutcomes :
          LET stored == rc_store[rc_url]
              got    == CacheService_get(rc_redis, outcome, stored)
          IN  /\ rc_get_fault' = (rc_redis # "client" \/ outcome = "raises" \/ stored = NotJson)
              /\ rc_cached' = got.ret
              /\ rc_escaped' = got.raised
              /\ IF got.raised THEN rc_http' = HttpFor("Exception", rc_url) /\ rc_pc' = "done"
                 ELSE IF got.ret # "None"
                      THEN rc_http' = [status |-> 200, body |-> got.ret] /\ rc_pc' = "done"
                 ELSE rc_http' = rc_http /\ rc_pc' = "analyze"
    /\ UNCHANGED <<mergeVars, classVars, pipeVars, saveVars, scaleVars, convVars, effectVars, insightVars, nameVars, orderVars, rateVars, rc_redis,
                   rc_store, rc_before, rc_n, rc_url, rc_analysis, rc_set_fault>>

\* lines 101-104 and 109-114: the analysis runs; its errors become 404 or 500
Analyze ==
    /\ rc_pc = "analyze"
    /\ \E outcome \in AnalysisOutcomes :
          /\ rc_analysis' = outcome
          /\ IF outcome = "response" THEN rc_http' = rc_http /\ rc_pc' = "set"
             ELSE rc_http' = HttpFor(outcome, rc_url) /\ rc_pc' = "done"
    /\ UNCHANGED <<mergeVars, classVars, pipeVars, saveVars, scaleVars, convVars, effectVars, insightVars, nameVars, orderVars, rateVars, rc_redis,
                   rc_store, rc_before, rc_n, rc_url, rc_cached, rc_get_fault,
                   rc_set_fault, rc_escaped>>

\* lines 106-108: the result is cached and returned
CacheSet ==
    /\ rc_pc = "set"
    /\ \E outcome \in RedisOutcomes :
          LET put == CacheService_set(rc_redis, outcome, rc_store, rc_url, BodyOf(rc_url))
          IN  /\ rc_set_fault' = (rc_redis # "client" \/ outcome = "raises")
              /\ rc_store' = put.store
              /\ rc_escaped' = put.raised
              /\ rc_http' = IF put.raised THEN HttpFor("Exception", rc_url)
                            ELSE HttpFor("response", rc_url)
    /\ rc_pc' = "done"
    /\ UNCHANGED <<mergeVars, classVars, pipeVars, saveVars, scaleVars, convVars, effectVars, insightVars, nameVars, orderVars, rateVars, rc_redis,
                   rc_before, rc_n, rc_url, rc_cached, rc_analysis, rc_get_fault>>

\* the next request comes in
NextRequest ==
    /\ rc_pc = "done"
    /\ rc_n < MaxRequests
    /\ rc_n' = rc_n + 1
    /\ rc_url' \in Urls
    /\ rc_before' = rc_store
    /\ rc_pc' = "get"
    /\ rc_cached' = "None" /\ rc_analysis' = "None" /\ rc_get_fault' = FALSE
    /\ rc_set_fault' = FALSE /\ rc_escaped' = FALSE /\ rc_http' = NoHttp
    /\ UNCHANGED <<mergeVars, classVars, pipeVars, saveVars, scaleVars, convVars, effectVars, insightVars, nameVars, orderVars, rateVars, rc_redis,
                   rc_store>>

NextCache == Connect \/ CacheGet \/ Analyze \/ CacheSet \/ NextRequest
SpecCache == InitCache /\ [][NextCache]_vars

\* ---------------------------------------------------------------------------
\* generate_effects_profile applied to bounded terpene dicts
\* ---------------------------------------------------------------------------
MaxTerps == 3
\* terpenes of TERPENE_EFFECTS that share contexts, and one that is not among
\* them
EffectKeys ==
    <<"myrcene", "limonene", "caryophyllene", "alpha_pinene", "humulene", "linalool",
      "nerolidol">>
EffectValues == (0 - 1)..MaxVal

InitEffects ==
    /\ MergeOff
    /\ ClassOff
    /\ PipeOff
    /\ SaveOff
    /\ ScaleOff
    /\ ConvOff
    /\ CacheOff
    /\ InsightOff
    /\ NameOff
    /\ OrderOff
    /\ RateOff
    /\ \E S \in SUBSET {EffectKeys[i] : i \in 1..Len(EffectKeys)} :
          /\ Cardinality(S) <= MaxTerps
          /\ \E d \in [S -> EffectValues] :
                ef_terpenes \in {ItemsOf(EffectKeys, d), ItemsOf(Reverse(EffectKeys), d)}
    /\ ef_result = NoEffects

Effects ==
    /\ ~ef_result.called
    /\ \E up \in BOOLEAN : ef_result' = generate_effects_profile(ef_terpenes, up)
    /\ UNCHANGED <<mergeVars, classVars, pipeVars, saveVars, scaleVars, convVars, cacheVars, insightVars, nameVars, orderVars, rateVars,
                   ef_terpenes>>

NextEffects == Effects
SpecEffects == InitEffects /\ [][NextEffects]_vars

\* ---------------------------------------------------------------------------
\* generate_cannabinoid_insights applied to totals on both scales: values
\* around the potency tiers (percent) and around the minor-cannabinoid
\* thresholds (fractions), None, zero and negative values
\* ---------------------------------------------------------------------------
InitInsights ==
    /\ MergeOff
    /\ ClassOff
    /\ PipeOff
    /\ SaveOff
    /\ ScaleOff
    /\ ConvOff
    /\ CacheOff
    /\ EffectOff
    /\ NameOff
    /\ OrderOff
    /\ RateOff
    /\ \E thc \in {None, 0 - 1000, 0, 500, 12000, 26000} :
       \E thca \in {None, 0, 1000, 30000} :
       \E cbd \in {None, 0 - 1, 0, 100, 26000} :
       \E cbda \in {None, 1000} :
       \E cbn \in {None, 4, 6} :
       \E cbg \in {None, 0, 8, 20} :
       \E thcv \in {None, 6} :
       \E cbdv \in {None, 6} :
          in_totals = [thc |-> thc, thca |-> thca, cbd |-> cbd, cbda |-> cbda,
                       cbn |-> cbn, cbg |-> cbg, thcv |-> thcv, cbdv |-> cbdv]
    /\ in_result = NoInsights

Insights ==
    /\ in_result = NoInsights
    /\ in_result' = generate_cannabinoid_insights(in_totals)
    /\ UNCHANGED <<mergeVars, classVars, pipeVars, saveVars, scaleVars, convVars, cacheVars,
                   effectVars, nameVars, orderVars, rateVars, in_totals>>

NextInsights == Insights
SpecInsights == InitInsights /\ [][NextInsights]_vars

\* ---------------------------------------------------------------------------
\* The strain-name normalizers applied to one name: the name the analyzer
\* sends to the APIs on the retry, the shared normalizer in title case, the
\* key a profile is saved under, and the lookup by that stored key
\* ---------------------------------------------------------------------------
\* the pieces a name is made of: words, suffix words, separators
NameParts ==
    {<<"B", "l", "u", "e">>, <<"K", "u", "s", "h">>, <<"F", "l", "o", "w", "e", "r">>,
     <<"b", "u", "d">>, <<" ">>, <<"-">>, <<"#", "1">>}

InitNames ==
    /\ MergeOff
    /\ ClassOff
    /\ PipeOff
    /\ SaveOff
    /\ ScaleOff
    /\ ConvOff
    /\ CacheOff
    /\ EffectOff
    /\ InsightOff
    /\ OrderOff
    /\ RateOff
    /\ \E n \in 0..MaxParts : \E parts \in [1..n -> NameParts] :
          nm_name = Flatten(parts)
    /\ nm_api = NotRun
    /\ nm_title = NotRun
    /\ nm_table = <<>>
    /\ nm_hit = "not run"

\* analyzer.py 210, 221: the name for the API retry
ApiRetryName ==
    /\ nm_api = NotRun
    /\ nm_api' = StrainAnalyzer_normalize_strain_name(nm_name)
    /\ UNCHANGED <<mergeVars, classVars, pipeVars, saveVars, scaleVars, convVars, cacheVars,
                   effectVars, insightVars, orderVars, rateVars, nm_name, nm_title,
                   nm_table, nm_hit>>

\* normalization.py 7-36 with title_case=True
SharedTitleName ==
    /\ nm_title = NotRun
    /\ nm_title' = normalize_strain_name(nm_name, TRUE)
    /\ UNCHANGED <<mergeVars, classVars, pipeVars, saveVars, scaleVars, convVars, cacheVars,
                   effectVars, insightVars, orderVars, rateVars, nm_name, nm_api,
                   nm_table, nm_hit>>

\* profile_cache.py 70-133: the profile of the name is saved
SaveUnderKey ==
    /\ nm_table = <<>>
    /\ nm_table' = save_profile(nm_table, nm_name, [myrcene |-> 2], EmptyTotals, "BLUE",
                                "page", "ok").table
    /\ UNCHANGED <<mergeVars, classVars, pipeVars, saveVars, scaleVars, convVars, cacheVars,
                   effectVars, insightVars, orderVars, rateVars, nm_name, nm_api,
                   nm_title, nm_hit>>

\* profile_cache.py 29-68: the lookup by the key the row is stored under
LookupStoredKey ==
    /\ nm_table # <<>>
    /\ nm_hit = "not run"
    /\ nm_hit' = IF get_cached_profile(nm_table, nm_table[1].strain_normalized).found
                 THEN "hit" ELSE "miss"
    /\ UNCHANGED <<mergeVars, classVars, pipeVars, saveVars, scaleVars, convVars, cacheVars,
                   effectVars, insightVars, orderVars, rateVars, nm_name, nm_api,
                   nm_title, nm_table>>

NextNames == ApiRetryName \/ SharedTitleName \/ SaveUnderKey \/ LookupStoredKey
SpecNames == InitNames /\ [][NextNames]_vars

\* ---------------------------------------------------------------------------
\* classify_terpene_profile applied to one dict whose keys were inserted in
\* two orders: the same key-value pairs, values that tie included
\* ---------------------------------------------------------------------------
OrderKeys == <<"myrcene", "limonene", "caryophyllene", "alpha_pinene", "terpinolene">>
OrderKeySet == {OrderKeys[i] : i \in 1..Len(OrderKeys)}

InitOrder ==
    /\ MergeOff
    /\ ClassOff
    /\ PipeOff
    /\ SaveOff
    /\ ScaleOff
    /\ ConvOff
    /\ CacheOff
    /\ EffectOff
    /\ InsightOff
    /\ NameOff
    /\ RateOff
    /\ \E S \in SUBSET OrderKeySet :
          /\ Cardinality(S) <= MaxTerps
          /\ \E d \in [S -> 0..MaxVal] :
                /\ od_items = ItemsOf(OrderKeys, d)
                /\ \E p \in Permutations(1..Cardinality(S)) :
                      od_perm = [i \in 1..Cardinality(S) |-> ItemsOf(OrderKeys, d)[p[i]]]
    /\ od_cat = ""
    /\ od_cat_perm = ""

\* classifier.py 90-163 on the dict in the first insertion order
ClassifyGiven ==
    /\ od_cat = ""
    /\ od_cat' = classify_terpene_profile(od_items)
    /\ UNCHANGED <<mergeVars, classVars, pipeVars, saveVars, scaleVars, convVars, cacheVars,
                   effectVars, insightVars, nameVars, rateVars, od_items, od_perm,
                   od_cat_perm>>

\* classifier.py 90-163 on the dict in the other insertion order
ClassifyPermuted ==
    /\ od_cat_perm = ""
    /\ od_cat_perm' = classify_terpene_profile(od_perm)
    /\ UNCHANGED <<mergeVars, classVars, pipeVars, saveVars, scaleVars, convVars, cacheVars,
                   effectVars, insightVars, nameVars, rateVars, od_items, od_perm,
                   od_cat>>

NextOrder == ClassifyGiven \/ ClassifyPermuted
SpecOrder == InitOrder /\ [][NextOrder]_vars

\* ---------------------------------------------------------------------------
\* RateLimitMiddleware.dispatch and CacheService.check_rate_limit for one
\* client, Redis connected: concurrent requests, each call of
\* check_rate_limit suspended at its awaits, and the seconds that pass.
\* The counter is the decimal string Redis holds, written as its number.
\* ---------------------------------------------------------------------------
\* the limit and the window of the calls, in requests and in seconds
Limit == 2
Window == 2
Calls == 1..MaxProcs
RatePaths == {"/health", "/api/analyze-url"}
\* middleware.py 17
SkipPaths == {"/", "/health", "/api/version"}

InitRate ==
    /\ MergeOff
    /\ ClassOff
    /\ PipeOff
    /\ SaveOff
    /\ ScaleOff
    /\ ConvOff
    /\ CacheOff
    /\ EffectOff
    /\ InsightOff
    /\ NameOff
    /\ OrderOff
    /\ rl_store = NoKey
    /\ rl_pc = [p \in Calls |-> "idle"]
    /\ rl_current = [p \in Calls |-> None]
    /\ rl_allowed = 0
    /\ rl_window = 0
    /\ rl_quiet = 0
    /\ rl_last = "none"

\* SETEX key window "1"
Setex(store, window) == [count |-> 1, ttl |-> window]
\* INCR key: a missing key is created at 1 without an expiry, an existing
\* key keeps the expiry it has
Incr(store) ==
    IF store.count = None THEN [count |-> 1, ttl |-> None]
    ELSE [store EXCEPT !.count = @ + 1]
\* one second passes for the key
Expire(store) ==
    IF store.count = None \/ store.ttl = None THEN store
    ELSE IF store.ttl = 1 THEN NoKey
    ELSE [store EXCEPT !.ttl = @ - 1]

\* middleware.py 16-18: a path that is not rate limited goes straight on
SkipPath(p) ==
    /\ rl_pc[p] = "idle"
    /\ \E path \in RatePaths : path \in SkipPaths
    /\ rl_last' = "skipped"
    /\ rl_quiet' = 0
    /\ UNCHANGED <<mergeVars, classVars, pipeVars, saveVars, scaleVars, convVars, cacheVars,
                   effectVars, insightVars, nameVars, orderVars, rl_store, rl_pc,
                   rl_current, rl_allowed, rl_window>>

\* middleware.py 20-31, cache.py 93-101: the request reaches check_rate_limit,
\* which reads the counter; a counter at the limit rejects the request (429)
RateGet(p) ==
    /\ rl_pc[p] = "idle"
    /\ \E path \in RatePaths : path \notin SkipPaths
    /\ rl_current' = [rl_current EXCEPT ![p] = rl_store.count]
    /\ IF rl_store.count # None /\ rl_store.count >= Limit
       THEN rl_last' = "rejected" /\ UNCHANGED rl_pc
       ELSE rl_pc' = [rl_pc EXCEPT ![p] = "write"] /\ UNCHANGED rl_last
    /\ rl_quiet' = 0
    /\ UNCHANGED <<mergeVars, classVars, pipeVars, saveVars, scaleVars, convVars, cacheVars,
                   effectVars, insightVars, nameVars, orderVars, rl_store, rl_allowed,
                   rl_window>>

\* cache.py 95-97, 102-104: the write that follows the read, and the request
\* is allowed
RateWrite(p) ==
    /\ rl_pc[p] = "write"
    /\ rl_store' = IF rl_current[p] = None THEN Setex(rl_store, Window)
                   ELSE Incr(rl_store)
    /\ rl_pc' = [rl_pc EXCEPT ![p] = "idle"]
    /\ rl_allowed' = rl_allowed + 1
    /\ rl_last' = "allowed"
    /\ rl_quiet' = 0
    /\ UNCHANGED <<mergeVars, classVars, pipeVars, saveVars, scaleVars, convVars, cacheVars,
                   effectVars, insightVars, nameVars, orderVars, rl_current, rl_window>>

\* one second passes: the key gets a second older; the window that the first
\* allowed request opened closes after Window seconds
Tick ==
    /\ rl_store' = Expire(rl_store)
    /\ IF rl_allowed = 0 THEN UNCHANGED <<rl_allowed, rl_window>>
       ELSE IF rl_window + 1 = Window THEN rl_allowed' = 0 /\ rl_window' = 0
       ELSE rl_window' = rl_window + 1 /\ UNCHANGED rl_allowed
    /\ rl_quiet' = IF rl_quiet < Window THEN rl_quiet + 1 ELSE rl_quiet
    /\ UNCHANGED <<mergeVars, classVars, pipeVars, saveVars, scaleVars, convVars, cacheVars,
                   effectVars, insightVars, nameVars, orderVars, rl_pc, rl_current,
                   rl_last>>

NextRate ==
    \/ \E p \in Calls : SkipPath(p)
    \/ \E p \in Calls : RateGet(p)
    \/ \E p \in Calls : RateWrite(p)
    \/ Tick
SpecRate == InitRate /\ [][NextRate]_vars

\* ---------------------------------------------------------------------------
\* Properties of the merge functions (SpecMerge)
\* ---------------------------------------------------------------------------
\* source i of the call holds a strictly positive value for key k
ArgPositive(i, k) ==
    IF mg_kind = "terpenes"
    THEN /\ ~mg_args[i].none
         /\ k \in DOMAIN mg_args[i].d
         /\ mg_args[i].d[k] \in PosVals
    ELSE /\ ~mg_args[i].none
         /\ mg_args[i].t[k] \in PosVals
ArgValue(i, k) == IF mg_kind = "terpenes" THEN mg_args[i].d[k] ELSE mg_args[i].t[k]
MergedHas(k) ==
    IF mg_kind = "terpenes" THEN k \in DOMAIN mg_out.merged ELSE mg_out.merged[k] # None
MergeKeyUniverse == IF mg_kind = "terpenes" THEN {MergeKeyA, MergeKeyB} ELSE CannFieldSet

\* C1: a key is in the merged result iff some source holds a strictly positive
\* value for it, and the merged value is that of the first such source in the
\* order coa, page, database, api; a None, zero or negative value of an earlier
\* source does not block a later positive one.
C1_MergePriority ==
    mg_out.done =>
        \A k \in MergeKeyUniverse :
            /\ MergedHas(k) <=> \E i \in 1..4 : ArgPositive(i, k)
            /\ \A i \in 1..4 :
                  (ArgPositive(i, k) /\ \A j \in 1..(i - 1) : ~ArgPositive(j, k))
                      => mg_out.merged[k] = ArgValue(i, k)

\* C1 witness: coa holds zero, page None, database a negative value is absent
\* but the api holds the only positive value, and the merge returned it
C1_Witness ==
    /\ mg_out.done
    /\ mg_kind = "terpenes"
    /\ ~mg_args[1].none /\ MergeKeyA \in DOMAIN mg_args[1].d /\ mg_args[1].d[MergeKeyA] = 0
    /\ ~mg_args[2].none /\ MergeKeyA \in DOMAIN mg_args[2].d /\ mg_args[2].d[MergeKeyA] = None
    /\ ~mg_args[3].none /\ MergeKeyA \in DOMAIN mg_args[3].d /\ mg_args[3].d[MergeKeyA] = MinVal
    /\ ~mg_args[4].none /\ MergeKeyA \in DOMAIN mg_args[4].d /\ mg_args[4].d[MergeKeyA] = 2
    /\ mg_out.merged[MergeKeyA] = 2

\* ---------------------------------------------------------------------------
\* Properties of the classifier (SpecClassify)
\* ---------------------------------------------------------------------------
Classified == cl_result \notin {"", "off"}
ClTerps == normalize_terpene_profile(cl_terpenes)
ClTop == get_top_terpene(ClTerps)
\* the proportion of key k is at least / at most pct hundredths
ClAtLeast(k, pct) == 100 * Get(ClTerps, k) >= pct * ClTerps.total
ClPineneAtLeast(pct) ==
    100 * (Get(ClTerps, "alpha_pinene") + Get(ClTerps, "beta_pinene")) >= pct * ClTerps.total
ClPineneAtMost(pct) ==
    100 * (Get(ClTerps, "alpha_pinene") + Get(ClTerps, "beta_pinene")) <= pct * ClTerps.total
ClBalancedThree ==
    LET m == Get(ClTerps, "myrcene")
        l == Get(ClTerps, "limonene")
        c == Get(ClTerps, "caryophyllene")
    IN  \A v \in {m, l, c} : 100 * Abs(3 * v - (m + l + c)) <= 15 * (m + l + c)

\* the ordered sequence of checks the claim states, without the secondary
\* clauses of the ORANGE and BLUE checks
ClaimedCategory ==
    IF ClAtLeast("terpinolene", 35) THEN "ORANGE"
    ELSE IF ClPineneAtLeast(35)
            \/ (ClTop.name \in {"alpha_pinene", "beta_pinene"}
                /\ 100 * ClTop.value >= 10 * ClTerps.total) THEN "GREEN"
    ELSE IF ClAtLeast("myrcene", 35) THEN "BLUE"
    ELSE IF /\ ClAtLeast("myrcene", 20) /\ ClAtLeast("limonene", 20)
            /\ ClAtLeast("caryophyllene", 20)
            /\ ClBalancedThree
            /\ ClPineneAtMost(15)
            /\ 100 * Get(ClTerps, "humulene") <= 15 * ClTerps.total THEN "RED"
    ELSE IF ClAtLeast("caryophyllene", 30) /\ ClPineneAtMost(15) THEN "PURPLE"
    ELSE IF ClAtLeast("limonene", 30) THEN "YELLOW"
    ELSE IF ClTop.name = "myrcene" THEN "BLUE"
    ELSE IF ClTop.name = "limonene" THEN "YELLOW"
    ELSE IF ClTop.name = "caryophyllene" THEN "PURPLE"
    ELSE IF ClTop.name \in {"alpha_pinene", "beta_pinene"} THEN "GREEN"
    ELSE IF ClTop.name = "terpinolene" THEN "ORANGE"
    ELSE "BLUE"

HasPositive == \E i \in 1..Len(cl_terpenes) : cl_terpenes[i][2] \in PosVals

\* C4: for a terpene map with a positive value the classifier returns the
\* first match of the claimed sequence of checks on the normalized
\* proportions; the secondary clauses of ORANGE and BLUE change nothing.
C4_DecisionSequence == (Classified /\ HasPositive) => cl_result = ClaimedCategory

\* C4 witness: terpinolene is the top terpene below the ORANGE threshold, the
\* case of the secondary clause, and an earlier-than-fallback check decided
C4_Witness ==
    /\ Classified
    /\ HasPositive
    /\ ClTop.name = "terpinolene"
    /\ ~ClAtLeast("terpinolene", 35)
    /\ cl_result = "RED"

\* C5: the classifier returns, without raising, one of the six categories,
\* and BLUE for a map with no strictly positive value.
C5_TotalAndSixValued ==
    Classified =>
        /\ cl_result \in Categories
        /\ ~HasPositive => cl_result = "BLUE"

\* C5 witness: a map holding only a None, a zero and a negative value was
\* classified BLUE
C5_Witness ==
    /\ Classified
    /\ cl_result = "BLUE"
    /\ {cl_terpenes[i][2] : i \in 1..Len(cl_terpenes)} = {None, 0, MinVal}


\* ---------------------------------------------------------------------------
\* Properties of analyze_url (SpecAnalyze)
\* ---------------------------------------------------------------------------
\* the positions of the calls of op in the log
CallsOf(op) == {i \in 1..Len(log) : log[i].op = op}
Ended == pc = "done"

\* the cannabinoid keys of a result (every field of Totals but total_terpenes)
CannabinoidKeys == {"thc", "thca", "thcv", "cbd", "cbda", "cbdv", "cbn", "cbg",
                    "cbgm", "cbgv", "cbc", "cbcv", "cbv", "cbe", "cbt", "cbl"}
MergedIsEmpty ==
    /\ DOMAIN merged_terpenes = {}
    /\ \A f \in CannabinoidKeys : merged_totals[f] = None

\* C2: a run that reached the final merge ends in the no-data error if and
\* only if the merged terpene map is empty and the merged totals hold no value
\* for any of the sixteen cannabinoid keys; otherwise a response is returned.
C2_NoDataIff ==
    (Ended /\ CallsOf("is_data_complete") # {}) =>
        /\ result \in {"ValueError", "response"}
        /\ result = "ValueError" <=> MergedIsEmpty

\* a positive value for key k in one of the three sources the gate looks at
PrelimHolds(k) ==
    \/ k \in DOMAIN coa_terpenes /\ coa_terpenes[k] > 0
    \/ k \in DOMAIN scraped.terpenes /\ scraped.terpenes[k] > 0
    \/ k \in DOMAIN db_terpenes /\ db_terpenes[k] > 0
PrelimHoldsField(f) ==
    \/ coa_totals[f] # None /\ coa_totals[f] > 0
    \/ scraped.totals[f] # None /\ scraped.totals[f] > 0
    \/ db_totals[f] # None /\ db_totals[f] > 0
PrelimComplete ==
    /\ Cardinality({k \in ClassKeySet : PrelimHolds(k)}) >= 5
    /\ \E f \in {"thc", "thca", "cbd", "cbda", "cbn", "cbg"} : PrelimHoldsField(f)

\* C3: the gate is evaluated at most once, after the scrape, every COA
\* attempt and the database lookup; its verdict is that of the coa/page/
\* database data alone (at least 5 terpenes and a major cannabinoid); when it
\* is met no strain-API call is made in the run, and otherwise the next call
\* is the first call of the fallback chain.
C3_CompletenessGate ==
    \A g \in CallsOf("is_data_complete") :
        /\ CallsOf("is_data_complete") = {g}
        /\ \E i \in 1..(g - 1) : log[i].op = "scrape_url" /\ log[i].ok
        /\ \E i \in 1..(g - 1) : log[i].op = "get_cached_profile"
        /\ \A i \in CallsOf("parse_coa") \cup CallsOf("get_cached_profile") : i < g
        /\ Cardinality(CallsOf("parse_coa")) \in {0, Len(scraped.coa_links)}
              \/ \E i \in CallsOf("parse_coa") : log[i].ok
        /\ log[g].ok <=> PrelimComplete
        /\ log[g].ok => CallsOf("get_strain_data") = {}
        /\ ~log[g].ok =>
              IF Len(log) = g THEN pc = "api" /\ api_step = 1
              ELSE log[g + 1].op = "get_strain_data"

\* a run whose page alone is short of five terpenes and whose gate was met
\* by the three sources together, ended with a response and no API call
C3_Witness ==
    /\ Ended /\ result = "response"
    /\ \E g \in CallsOf("is_data_complete") : log[g].ok
    /\ Cardinality(DOMAIN scraped.terpenes) < 5
    /\ CallsOf("get_strain_data") = {}

\* C6: whatever fails upstream, analyze_url ends in an error only when no
\* source supplied any data, and that error is the no-data error.
C6_FailuresAbsorbed ==
    Ended =>
        /\ result \in {"response", "ValueError"}
        /\ result = "ValueError" => MergedIsEmpty

\* C7: when save_profile returns False the stored profiles are what they were
\* before the call and analyze_url goes on to return the response.
C7_SaveFailureHarmless ==
    /\ []((Ended /\ save_result = "False") => result = "response")
    /\ [][(pc = "save" /\ save_result' = "False") =>
             (profiles' = profiles /\ pc' = "respond"
              /\ merged_terpenes' = merged_terpenes /\ category' = category)]_vars

\* a run whose save failed and that returned its response
C7_Witness ==
    /\ Ended /\ save_result = "False" /\ result = "response"
    /\ \E i \in CallsOf("save_profile") : ~log[i].ok

\* the j-th call of op in the log
NthCall(op, j) ==
    CHOOSE i \in CallsOf(op) : Cardinality({k \in CallsOf(op) : k <= i}) = j

\* the normalized title-case form of the names of the runs
TitleCaseOf(name) ==
    IF name = UnknownStrain THEN <<"U", "n", "k", "n", "o", "w", "n">>
    ELSE IF name = Punctuation THEN <<>>
    ELSE IF name = BlueDreamJoined THEN <<"B", "l", "u", "e", "d", "r", "e", "a", "m">>
    ELSE name
\* the fallback chain: primary API, then secondary, each with the name as it
\* is and then normalized
ClaimedChain(name) ==
    <<[client |-> "cannlytics", name |-> name],
      [client |-> "cannlytics", name |-> TitleCaseOf(name)],
      [client |-> "kushy", name |-> name],
      [client |-> "kushy", name |-> TitleCaseOf(name)]>>

\* C8: after an unmet gate the strain-API calls are, in order, the calls of
\* the fallback chain with the strain name of the gate; every call but the
\* last one made returned nothing, and the chain goes on until a call returns
\* data or all four were made.
C8_ApiFallbackOrder ==
    LET n == Cardinality(CallsOf("get_strain_data")) IN
    /\ n <= 4
    /\ \A g \in CallsOf("is_data_complete") :
          /\ \A j \in 1..n :
                LET e == log[NthCall("get_strain_data", j)] IN
                /\ NthCall("get_strain_data", j) = g + j
                /\ e.client = ClaimedChain(log[g].name)[j].client
                /\ e.name = ClaimedChain(log[g].name)[j].name
                /\ j < n => ~e.ok
          /\ (~log[g].ok /\ pc # "api") =>
                /\ n >= 1
                /\ n = 4 \/ log[NthCall("get_strain_data", n)].ok
    /\ CallsOf("is_data_complete") = {} => n = 0

\* a run in which the first three calls returned nothing and the fourth,
\* the secondary API with the normalized name, returned data
C8_Witness ==
    /\ Ended /\ result = "response"
    /\ Cardinality(CallsOf("get_strain_data")) = 4
    /\ log[NthCall("get_strain_data", 4)].ok
    /\ log[NthCall("get_strain_data", 4)].name # log[NthCall("get_strain_data", 3)].name
    /\ api_source = "kushy"

\* a parse that yielded non-empty terpenes
Yielded(e) == ~e.ret.none /\ DOMAIN e.ret.terpenes # {}

\* C9: the COA parses made are those of the links in the order of the scrape,
\* one after the other; no link is parsed after one that yielded terpenes, a
\* link that yielded none does not end the loop, and the COA data, lab, date
\* and URL are those of the link that yielded terpenes, or empty if none did.
C9_CoaFirstSuccess ==
    LET n == Cardinality(CallsOf("parse_coa"))
        links == scraped.coa_links
    IN
    /\ n <= Len(links)
    /\ \A j \in 1..n :
          LET e == log[NthCall("parse_coa", j)] IN
          /\ e.link = links[j]
          /\ j < n => ~Yielded(e)
    /\ pc # "coa" => (n = Len(links) \/ Yielded(log[NthCall("parse_coa", n)]))
    /\ IF n >= 1 /\ Yielded(log[NthCall("parse_coa", n)])
       THEN LET e == log[NthCall("parse_coa", n)] IN
            /\ coa_terpenes = e.ret.terpenes
            /\ coa_totals = e.ret.totals
            /\ coa_url = e.link
            /\ coa_lab = e.ret.lab_name
            /\ coa_date = e.ret.test_date
       ELSE /\ DOMAIN coa_terpenes = {}
            /\ coa_totals = EmptyTotals
            /\ coa_url = None /\ coa_lab = None /\ coa_date = None

\* a run with two links in which the first yielded nothing and the second
\* yielded terpenes, ended with a response
C9_Witness ==
    /\ Ended /\ result = "response"
    /\ Len(scraped.coa_links) = 2
    /\ Cardinality(CallsOf("parse_coa")) = 2
    /\ ~Yielded(log[NthCall("parse_coa", 1)])
    /\ Yielded(log[NthCall("parse_coa", 2)])
    /\ coa_url = scraped.coa_links[2]

\* C10: a run that reaches the gate has queried the database cache exactly
\* once, right before the gate and after the COA step, with the current strain
\* name, and the database data are what the alias-fallback lookup gives for
\* that name: the row of the alias-resolved name when the direct lookup misses.
C10_AliasFallbackLookup ==
    /\ CallsOf("is_data_complete") # {} =>
          /\ Cardinality(CallsOf("get_cached_profile")) = 1
          /\ \A g \in CallsOf("is_data_complete") :
                /\ log[g - 1].op = "get_cached_profile"
                /\ log[g - 1].name = log[g].name
                /\ \A i \in CallsOf("parse_coa") : i < g - 1
    /\ pc = "gate" =>
          LET cached_profile == get_cached_profile_with_aliases(profiles, strain_name) IN
          /\ log[Len(log)].op = "get_cached_profile"
          /\ log[Len(log)].name = strain_name
          /\ IF cached_profile.found
             THEN /\ db_totals = cached_profile.totals
                  /\ cached_at = cached_profile.cached_at
                  /\ DOMAIN db_terpenes = DOMAIN cached_profile.terpenes
                  /\ \A k \in DOMAIN db_terpenes :
                        db_terpenes[k] = cached_profile.terpenes[k]
             ELSE /\ DOMAIN db_terpenes = {}
                  /\ db_totals = EmptyTotals
                  /\ cached_at = "None"

SaveCalled == CallsOf("save_profile") # {}
\* the page or the COA holds a positive value for some terpene key, which is
\* then a merged value that it supplied
PageOrCoaTerpene ==
    \E k \in ClassKeySet :
        \/ k \in DOMAIN coa_terpenes /\ coa_terpenes[k] > 0
        \/ k \in DOMAIN scraped.terpenes /\ scraped.terpenes[k] > 0
\* the same for a field of the totals
PageOrCoaField ==
    \E f \in CannFieldSet :
        \/ coa_totals[f] # None /\ coa_totals[f] > 0
        \/ scraped.totals[f] # None /\ scraped.totals[f] > 0

C12_SaveWheneverTerpenes ==
    (/\ Ended /\ result = "response"
     /\ DOMAIN merged_terpenes # {}
     /\ category \in Categories
     /\ NameTruthy(strain_name))
    => Cardinality(CallsOf("save_profile")) = 1

\* C13: the profiles table never holds a row whose normalized strain name is
\* the empty string: a run whose strain name normalizes to "" does not save.
C13_NoEmptyKey ==
    /\ \A i \in 1..Len(profiles) : profiles[i].strain_normalized # <<>>
    /\ \A i \in CallsOf("save_profile") :
          ProfileCacheService_normalize_strain_name(log[i].name) # <<>>

\* ---------------------------------------------------------------------------
\* Properties of concurrent saves (SpecSave)
\* ---------------------------------------------------------------------------
\* C14: whatever the interleaving of save_profile calls, the table holds at
\* most one row per normalized strain name, and that row carries the
\* terpenes, totals, category and source of the last committed save of the name.
C14_OneRecordLastWrite ==
    /\ \A i, j \in 1..Len(sv_table) :
          sv_table[i].strain_normalized = sv_table[j].strain_normalized => i = j
    /\ \A n \in DOMAIN sv_last :
          \E i \in 1..Len(sv_table) :
             /\ sv_table[i].strain_normalized = n
             /\ sv_table[i].terp_vector = sv_last[n].terp_vector
             /\ sv_table[i].totals = sv_last[n].totals
             /\ sv_table[i].category = sv_last[n].category
             /\ sv_table[i].source = sv_last[n].source

\* ---------------------------------------------------------------------------
\* More properties of analyze_url (SpecAnalyze)
\* ---------------------------------------------------------------------------
\* the four sources of the final merge, in priority order
TerpeneSources == <<coa_terpenes, scraped.terpenes, db_terpenes, api_terpenes>>
TotalsSources == <<coa_totals, scraped.totals, db_totals, api_totals>>
HoldsTerpene(i, k) == k \in DOMAIN TerpeneSources[i] /\ TerpeneSources[i][k] > 0
HoldsField(i, f) == TotalsSources[i][f] # None /\ TotalsSources[i][f] > 0
\* source i supplied a value of the merged result: it holds a positive value
\* that no source of higher priority holds
Supplied(i) ==
    \/ \E k \in ClassKeySet :
          HoldsTerpene(i, k) /\ \A j \in 1..(i - 1) : ~HoldsTerpene(j, k)
    \/ \E f \in CannFieldSet :
          HoldsField(i, f) /\ \A j \in 1..(i - 1) : ~HoldsField(j, f)
SourceIndex(n) == CHOOSE i \in 1..Len(SourceNames) : SourceNames[i] = n

\* C15: in every run that reached the final merge, and so in every response,
\* the sources list names exactly the sources that supplied a merged terpene
\* or a merged field of the totals, in the order coa, page, database, api and
\* without repeats; it is <<"page">> when no source supplied anything.
C15_SourcesList ==
    (Ended /\ result \in {"response", "ValueError"}) =>
        /\ \A a \in 1..Len(all_sources) :
              \E i \in 1..Len(SourceNames) : SourceNames[i] = all_sources[a]
        /\ \A a, b \in 1..Len(all_sources) :
              a < b => SourceIndex(all_sources[a]) < SourceIndex(all_sources[b])
        /\ IF \E i \in 1..Len(SourceNames) : Supplied(i)
           THEN \A i \in 1..Len(SourceNames) :
                   InSeq(SourceNames[i], all_sources) <=> Supplied(i)
           ELSE all_sources = <<"page">>

\* a response whose values came from the page, the database and the API, the
\* COA having supplied none
C15_Witness ==
    /\ Ended /\ result = "response"
    /\ all_sources = <<"page", "database", "api">>
    /\ Supplied(2) /\ Supplied(3) /\ Supplied(4) /\ ~Supplied(1)

\* ---------------------------------------------------------------------------
\* More properties of the merge functions (SpecMerge)
\* ---------------------------------------------------------------------------
\* source i supplied the selected value of key k
SelectedFrom(i, k) == ArgPositive(i, k) /\ \A j \in 1..(i - 1) : ~ArgPositive(j, k)
\* argument i is None or holds nothing
ArgEmpty(i) ==
    \/ mg_args[i].none
    \/ IF mg_kind = "terpenes" THEN DOMAIN mg_args[i].d = {}
       ELSE mg_args[i].t = EmptyTotals

\* C16: for both merge functions a source is in sources_used iff it supplied
\* the selected value of some merged key; a source whose positive keys are
\* all positive in a higher-priority source is not listed, and sources_used
\* is empty when the four inputs are empty or None.
C16_SourcesUsed ==
    mg_out.done =>
        /\ \A i \in 1..4 :
              SourceNames[i] \in mg_out.used
                 <=> \E k \in MergeKeyUniverse : SelectedFrom(i, k)
        /\ mg_out.used \subseteq {SourceNames[i] : i \in 1..4}
        /\ (\A i \in 1..4 : ArgEmpty(i)) => mg_out.used = {}

\* a merge in which the page holds positive keys, all of them also positive
\* in the coa, and is not listed
C16_Witness ==
    /\ mg_out.done
    /\ \E k \in MergeKeyUniverse : ArgPositive(2, k)
    /\ \A k \in MergeKeyUniverse : ArgPositive(2, k) => ArgPositive(1, k)
    /\ "page" \notin mg_out.used
    /\ "coa" \in mg_out.used

\* the four arguments are the same source
SameSourceFourTimes == \A i \in 2..4 : mg_args[i] = mg_args[1]
\* the merged result has exactly the keys and values of argument 1
MergedIsArg ==
    /\ ~mg_args[1].none
    /\ IF mg_kind = "terpenes"
       THEN /\ DOMAIN mg_out.merged = DOMAIN mg_args[1].d
            /\ \A k \in DOMAIN mg_out.merged : mg_out.merged[k] = mg_args[1].d[k]
       ELSE \A f \in CannFieldSet : mg_out.merged[f] = mg_args[1].t[f]
MergedIsEmptyResult ==
    IF mg_kind = "terpenes" THEN DOMAIN mg_out.merged = {}
    ELSE \A f \in CannFieldSet : mg_out.merged[f] = None

\* C17 as stated: merging any source S with itself in all four positions
\* returns S unchanged with coa as the only source used, and merging four
\* empty inputs returns an empty result and no source.
C17_Idempotent ==
    (mg_out.done /\ SameSourceFourTimes) =>
        IF ArgEmpty(1)
        THEN MergedIsEmptyResult /\ mg_out.used = {}
        ELSE MergedIsArg /\ mg_out.used = {"coa"}

\* C17 amended: merging S with itself in all four positions returns the
\* strictly positive entries of S, with the same values, and drops the None,
\* zero and negative ones; coa is the only source used when S has a positive
\* entry, and no source is used otherwise, as for four empty inputs.
C17_IdempotentOnPositive ==
    (mg_out.done /\ SameSourceFourTimes) =>
        /\ \A k \in MergeKeyUniverse :
              /\ MergedHas(k) <=> ArgPositive(1, k)
              /\ ArgPositive(1, k) => mg_out.merged[k] = ArgValue(1, k)
        /\ mg_kind = "terpenes" => DOMAIN mg_out.merged \subseteq MergeKeyUniverse
        /\ mg_out.used = IF \E k \in MergeKeyUniverse : ArgPositive(1, k)
                         THEN {"coa"} ELSE {}

\* a source with a positive and a non-positive entry merged with itself: the
\* positive entry is kept, the other dropped
C17_Witness ==
    /\ mg_out.done /\ SameSourceFourTimes
    /\ ~mg_args[1].none
    /\ \E k \in MergeKeyUniverse : ArgPositive(1, k)
    /\ ~MergedIsArg
    /\ mg_out.used = {"coa"}

\* ---------------------------------------------------------------------------
\* Properties of the classifier under scaling (SpecScale)
\* ---------------------------------------------------------------------------
\* C18: the category of a terpene dict and the category of the same dict
\* with every value multiplied by a positive factor are the same.
C18_ScaleInvariant ==
    (sc_base # "" /\ sc_scaled # "") => sc_base = sc_scaled

\* ---------------------------------------------------------------------------
\* Properties of the unit conversion (SpecConvert)
\* ---------------------------------------------------------------------------
Converted == cv_result # Pending
\* two floats at most one unit apart
Near(a, b) == Abs(a - b) <= 1

\* C19: for every fraction x of (0, 1], safe_terpene_value of the string form
\* of x * 100 returns x, and safe_terpene_value of the string form of x
\* returns x.
C19_RoundTrip ==
    (Converted /\ cv_form \in {"percent", "fraction"}) => cv_result = Num(cv_x)

\* C19 as the code has it: the string form of x returns x; the string form of
\* x * 100 returns x, up to the rounding of the product and of the quotient,
\* when x is above 0.01, and returns x * 100 itself when x is 0.01 or less.
C19_RoundTripAboveOnePercent ==
    Converted =>
        /\ cv_form = "fraction" => cv_result = Num(cv_x)
        /\ (cv_form = "percent" /\ 100 * cv_x > One) =>
              cv_result.kind = "num" /\ Near(cv_result.v, cv_x)
        /\ (cv_form = "percent" /\ 100 * cv_x <= One) =>
              /\ cv_result = float_of(cv_value.s)
              /\ cv_result.kind = "num"
              /\ Near(cv_result.v, 100 * cv_x)

C19_Witness ==
    /\ cv_form = "percent"
    /\ 200 * cv_x = One
    /\ cv_result = Num(One \div 2)

\* what float() makes of the value, ValueError included
ParsedOf(value) == float_of(Strip(py_str(value)))
IsSentinel(value) == StrLower(Strip(py_str(value))) \in Sentinels
\* the cases in which the claim allows None
NoDataInput(value) ==
    \/ value.type = "NoneType"
    \/ IsSentinel(value)
    \/ ParsedOf(value) = ValueError
    \/ ParsedOf(value).kind = "num" /\ ParsedOf(value).v <= 0
IsFraction(f) == f.kind = "num" /\ f.v > 0 /\ f.v <= One
DividedBy100(f, parsed) ==
    \/ parsed.kind = "inf" /\ f = parsed
    \/ /\ parsed.kind = "num"
       /\ f.kind = "num"
       /\ 100 * f.v >= parsed.v - 99
       /\ 100 * f.v <= parsed.v + 100

C21_TraditionalLabel ==
    result = "response" =>
        traditional_label = (IF category = "None" THEN "None" ELSE get_traditional_label(category))

\* C25: every run that reaches the end of the pipeline has added and
\* committed one extraction record.
C25_ExtractionRecorded ==
    result = "response" => Len(extractions) = 1

\* ---------------------------------------------------------------------------
\* Properties of the response cache (SpecCache)
\* ---------------------------------------------------------------------------
\* C22: when the cache is not connected or a read or write of it raises, get
\* returns a miss, set leaves the store as it was, no cache error reaches
\* the caller, and the request is answered with the outcome of the analysis,
\* as it is when the cache is empty.
C22_CacheBestEffort ==
    rc_pc = "done" =>
        /\ ~rc_escaped
        /\ rc_get_fault => rc_cached = "None"
        /\ rc_set_fault => rc_store = rc_before
        /\ (rc_get_fault \/ rc_set_fault) =>
              /\ rc_analysis # "None"
              /\ rc_http = HttpFor(rc_analysis, rc_url)

C22_Witness ==
    /\ rc_pc = "done"
    /\ rc_redis = "client"
    /\ rc_get_fault
    /\ rc_set_fault
    /\ rc_before[rc_url] = json_dumps(BodyOf(rc_url))
    /\ rc_http = [status |-> 200, body |-> BodyOf(rc_url)]

\* ---------------------------------------------------------------------------
\* Properties of the effects engine (SpecEffects)
\* ---------------------------------------------------------------------------
\* the terpenes that contribute a context, and the weight of a context: the
\* largest value among them
Contributors(ctx) ==
    {i \in 1..Len(ef_terpenes) :
        /\ HasEffect(ef_terpenes[i][1])
        /\ 100 * ef_terpenes[i][2] > CONTEXT_MIN_PERCENT * SumValues(ef_terpenes)
        /\ \E j \in 1..Len(TERPENE_EFFECTS[ef_terpenes[i][1]].best_for) :
              TERPENE_EFFECTS[ef_terpenes[i][1]].best_for[j] = ctx}
ContextWeight(ctx) ==
    CHOOSE w \in {ef_terpenes[i][2] : i \in Contributors(ctx)} :
        \A i \in Contributors(ctx) : ef_terpenes[i][2] <= w

\* C23: the result is empty exactly when the dict is empty or its values do
\* not sum to a positive number; a result that is not empty has both scores
\* in [0, 1] and at most six distinct best contexts, each contributed by a
\* terpene above 5%, in the order of non-increasing weight.
C23_EffectsProfile ==
    ef_result.called =>
        /\ ef_result.empty <=> (ef_terpenes = <<>> \/ SumValues(ef_terpenes) <= 0)
        /\ ~ef_result.empty =>
              LET best == ef_result.best_contexts IN
              /\ ef_result.body_mind_balance \in 0..100
              /\ ef_result.daytime_score \in 0..100
              /\ Len(best) <= 6
              /\ \A i, j \in 1..Len(best) : i # j => best[i] # best[j]
              /\ \A i \in 1..Len(best) : Contributors(best[i]) # {}
              /\ \A i, j \in 1..Len(best) :
                    i < j => ContextWeight(best[i]) >= ContextWeight(best[j])

C23_Witness ==
    /\ ef_result.called
    /\ ~ef_result.empty
    /\ Len(ef_result.best_contexts) = 6
    /\ ContextWeight(ef_result.best_contexts[1]) > ContextWeight(ef_result.best_contexts[6])
    /\ ef_terpenes[1][1] = "myrcene"
    /\ ContextWeight(ef_result.best_contexts[1]) > ef_terpenes[1][2]
    /\ \E i \in 1..Len(ef_terpenes) : ef_terpenes[i][2] < 0

\* ---------------------------------------------------------------------------
\* Properties of the cannabinoid insights (SpecInsights)
\* ---------------------------------------------------------------------------
RatioTexts ==
    {"THC-dominant (N:1 ratio)", "High THC (N:1 ratio)", "THC-leaning (N:1 ratio)",
     "Balanced THC:CBD (N:1 ratio)", "CBD-rich (1:N ratio)", "THC-dominant, minimal CBD",
     "CBD-dominant, minimal THC"}
PotencyTexts ==
    {"Very high potency", "High potency", "Moderate-high potency", "Moderate potency"}
\* the place of an insight in the order the claim gives
InsightRank(text) ==
    IF text \in RatioTexts THEN 1
    ELSE IF text \in PotencyTexts THEN 2
    ELSE IF text = "Elevated CBN may promote sleepiness" THEN 3
    ELSE IF text = "Notable CBG presence" THEN 4
    ELSE IF text = "Contains THCV" THEN 5
    ELSE IF text = "Contains CBDV" THEN 6
    ELSE 0
InsightsDone == in_result # NoInsights

\* C24: the insights come in the order ratio or dominance, potency tier,
\* CBN, CBG, THCV, CBDV, at most one of each; a ratio or dominance insight
\* is present exactly when the decarboxylated THC or CBD is positive; totals
\* without values give no insight.
C24_InsightOrder ==
    InsightsDone =>
        /\ \A i \in 1..Len(in_result) : InsightRank(in_result[i]) # 0
        /\ \A i, j \in 1..Len(in_result) :
              i < j => InsightRank(in_result[i]) < InsightRank(in_result[j])
        /\ (\E i \in 1..Len(in_result) : in_result[i] \in RatioTexts)
              <=> \/ Decarboxylated(in_totals.thc, in_totals.thca) > 0
                  \/ Decarboxylated(in_totals.cbd, in_totals.cbda) > 0
        /\ (\A f \in DOMAIN in_totals : in_totals[f] = None) => in_result = <<>>

C24_Witness ==
    /\ InsightsDone
    /\ Len(in_result) = 6
    /\ in_result[1] = "CBD-rich (1:N ratio)"

\* C26: whatever the name, the name StrainAnalyzer uses for the API retry is
\* the title-case result of the shared normalizer, and its lowercase form is
\* the key ProfileCacheService stores the profile under
C26_SingleNormalization ==
    /\ (nm_api # NotRun /\ nm_title # NotRun) => nm_api = nm_title
    /\ (nm_api # NotRun /\ nm_table # <<>>)
          => StrLower(nm_api) = nm_table[1].strain_normalized

\* C30: the key a profile is stored under is a fixed point of the
\* normalizer, and the lookup by that stored key finds the profile
C30_StoredKeyFixedPoint ==
    /\ nm_table # <<>>
          => ProfileCacheService_normalize_strain_name(nm_table[1].strain_normalized)
                = nm_table[1].strain_normalized
    /\ nm_hit # "not run" => nm_hit = "hit"

\* C29: two dicts that hold the same key-value pairs in different insertion
\* orders get the same category, ties for the largest value included
C29_OrderIndependent ==
    (od_cat # "" /\ od_cat_perm # "") => od_cat = od_cat_perm

\* C27: in every window at most Limit requests of the client are allowed,
\* however the concurrent calls interleave, and the counter never passes
\* the limit
C27_AtMostLimit ==
    /\ rl_allowed <= Limit
    /\ rl_store.count # None => rl_store.count <= Limit

\* C28: the counter key, whenever it exists, expires within one window, so
\* after a full window without a request the client is not rejected
C28_KeyExpires ==
    /\ rl_store.count # None => (rl_store.ttl # None /\ rl_store.ttl <= Window)
    /\ (rl_quiet >= Window /\ \A p \in Calls : rl_pc[p] = "idle")
          => (rl_store.count = None \/ rl_store.count < Limit)

====
